---- MODULE Spec2Model ----
(***************************************************************************)
(* Request execution engine of the Aqara SDK blocking client:              *)
(* signing (auth.rs), the retry loop and response classification           *)
(* (client/blocking_client.rs), backoff and Retry-After (util/retry.rs),   *)
(* the transport error kinds (transport/mod.rs), the error categories      *)
(* (error.rs) and the body snippet with its redaction (util/redact.rs).    *)
(*                                                                         *)
(* Conventions.  Strings are sequences of character codes.  A Duration is  *)
(* a whole number of microseconds.  The wall clock `now` is microseconds   *)
(* since the Unix epoch.  Option<T> is [some |-> FALSE] or                 *)
(* [some |-> TRUE, v |-> x].  Result<T> is [ok |-> TRUE, v |-> x] or       *)
(* [ok |-> FALSE, err |-> e].                                              *)
(***************************************************************************)
EXTENDS Integers, Sequences, FiniteSets, TLC

VARIABLES
    inner,          \* ClientInner: the fields fixed at construction
    handle,         \* per thread: the client (the Arc<ClientInner>) its BlockingClient points to
    access_token,   \* per client: ClientInner.access_token, RwLock<Option<SecretString>>
    poisoned,       \* the clients whose RwLock is poisoned
    now,            \* wall clock (SystemTime::now), microseconds
    rng,            \* number of nonces drawn from the random generator so far
    pc,             \* per calling thread: "off" | "idle" | "send" | "sleep" | "done" | "panicked"
    call,           \* per thread: arguments of call_value
    req,            \* per thread: the TransportRequest built by call_value
    max_attempts,   \* per thread: local of execute_with_retry
    attempt,        \* per thread: local of execute_with_retry
    delay,          \* per thread: argument of the pending sleep(delay)
    result,         \* per thread: value returned by call_value
    sent,           \* per thread: requests handed to transport.send, in order
    last,           \* per thread: outcome of the latest send and what the loop did with it
    probe           \* input/output of a pure function under check

vars == <<inner, handle, access_token, poisoned, now, rng, pc, call, req, max_attempts, attempt,
          delay, result, sent, last, probe>>

(***************************************************************************)
(* Bounds of the model.                                                    *)
(***************************************************************************)
MaxRetries == 1         \* small values of RetryConfig.max_retries drawn at construction
AttemptCap == 3         \* sends explored per call when max_retries is u32::MAX

Threads == {1, 2}       \* calling threads holding clones of one client handle

(***************************************************************************)
(* Machine integers.  TLC evaluates integers up to 2^31 - 1, so u32 and    *)
(* u64 are both held at that width: saturating operations saturate there.  *)
(* A result below that value is the result of the full-width operation.    *)
(***************************************************************************)
U32_MAX == 2147483647
U64_MAX == 2147483647

SaturatingAddU32(a, b) == IF a > U32_MAX - b THEN U32_MAX ELSE a + b

SaturatingSubU32(a, b) == IF a < b THEN 0 ELSE a - b

SaturatingMulU64(a, b) ==
    IF a = 0 \/ b = 0 THEN 0
    ELSE IF a > U64_MAX \div b THEN U64_MAX ELSE a * b

Min(a, b) == IF a <= b THEN a ELSE b

Pow2(n) == 2 ^ n

(***************************************************************************)
(* Option                                                                  *)
(***************************************************************************)
None == [some |-> FALSE]

Some(x) == [some |-> TRUE, v |-> x]

(***************************************************************************)
(* Durations (microseconds)                                                *)
(***************************************************************************)
MICROS_PER_MILLI == 1000
MICROS_PER_SEC == 1000000

DurationFromMillis(ms) == ms * MICROS_PER_MILLI

DurationFromSecs(s) == s * MICROS_PER_SEC

DurationAsMillis(d) == d \div MICROS_PER_MILLI

\* util/retry.rs duration_to_millis_u64
duration_to_millis_u64(d) == Min(DurationAsMillis(d), U64_MAX)

(***************************************************************************)
(* util/retry.rs                                                           *)
(***************************************************************************)
MAX_EXP == 30

\* BackoffCapMs doubling from the first attempt on: the exponent is the
\* attempt number
BackoffCapMsFromAttempt(att, retry) ==
    LET base_ms == duration_to_millis_u64(retry.base_delay)
        exp     == Min(att, MAX_EXP)
        factor  == Pow2(exp)
        exp_ms  == SaturatingMulU64(base_ms, factor)
    IN  Min(exp_ms, duration_to_millis_u64(retry.max_delay))

\* BackoffCapMs without the clamp to max_delay
BackoffCapMsUnclamped(att, retry) ==
    LET base_ms == duration_to_millis_u64(retry.base_delay)
        exp     == Min(SaturatingSubU32(att, 1), MAX_EXP)
        factor  == Pow2(exp)
    IN  SaturatingMulU64(base_ms, factor)

\* The value `capped` of compute_backoff_with_jitter: the largest delay, in
\* milliseconds, the jitter is drawn below.
BackoffCapMs(att, retry) ==
    LET base_ms == duration_to_millis_u64(retry.base_delay)
        exp     == Min(SaturatingSubU32(att, 1), MAX_EXP)
        factor  == Pow2(exp)
        exp_ms  == SaturatingMulU64(base_ms, factor)
    IN  Min(exp_ms, duration_to_millis_u64(retry.max_delay))

\* compute_backoff_with_jitter draws the jitter at random: the set of the
\* durations it can return.
compute_backoff_with_jitter(att, retry) ==
    IF duration_to_millis_u64(retry.base_delay) = 0
    THEN {DurationFromMillis(0)}
    ELSE IF BackoffCapMs(att, retry) = 0
         THEN {DurationFromMillis(0)}
         ELSE {DurationFromMillis(jitter_ms) : jitter_ms \in 0..BackoffCapMs(att, retry)}

\* A Retry-After header as the server sends it: absent, a decimal number of
\* seconds, an HTTP date (the instant it names), or text that is neither.
RetryAfterAbsent == [form |-> "absent"]

RetryAfterSeconds(n) == [form |-> "seconds", n |-> n]

RetryAfterDate(t) == [form |-> "http-date", at |-> t]

RetryAfterGarbage == [form |-> "garbage"]

\* parse_retry_after, evaluated when the clock reads t
parse_retry_after(headers, t) ==
    LET value == headers.retry_after
    IN  CASE value.form = "absent"    -> None
          [] value.form = "seconds"   -> Some(DurationFromSecs(value.n))
          [] value.form = "http-date" ->
                IF value.at >= t THEN Some(value.at - t)
                                 ELSE Some(DurationFromSecs(0))
          [] OTHER                    -> None

(***************************************************************************)
(* transport/mod.rs                                                        *)
(***************************************************************************)
TransportErrorKind == {"Timeout", "Connect", "Other"}

\* retryable taking every kind of failure for retryable
retryableAnyKind(e) == e.kind \in {"Timeout", "Connect", "Other"}

\* TransportError::retryable
retryable(e) == e.kind \in {"Timeout", "Connect"}

(***************************************************************************)
(* error.rs: the variants of Error                                         *)
(***************************************************************************)
InvalidConfig(message) == [variant |-> "InvalidConfig", message |-> message]

Transport(message) == [variant |-> "Transport", message |-> message]

Http(status, request_id, body_snippet) ==
    [variant |-> "Http", status |-> status, request_id |-> request_id,
     body_snippet |-> body_snippet]

RateLimited(retry_after, request_id, body_snippet) ==
    [variant |-> "RateLimited", retry_after |-> retry_after, request_id |-> request_id,
     body_snippet |-> body_snippet]

\* Error::Api holding the ApiError that parse_response fills in
Api(status, code, message, request_id, body_snippet) ==
    [variant |-> "Api", status |-> Some(status), code |-> Some(code),
     message |-> Some(message), request_id |-> request_id,
     body_snippet |-> body_snippet]

Decode(message, status, request_id, body_snippet) ==
    [variant |-> "Decode", message |-> message, status |-> status,
     request_id |-> request_id, body_snippet |-> body_snippet]

Ok(x) == [ok |-> TRUE, v |-> x]

Err(e) == [ok |-> FALSE, err |-> e]

(***************************************************************************)
(* Strings as sequences of character codes                                 *)
(***************************************************************************)
ToLowerChar(ch) == IF ch >= 65 /\ ch <= 90 THEN ch + 32 ELSE ch

\* str::to_lowercase
to_lowercase(s) == [i \in DOMAIN s |-> ToLowerChar(s[i])]

RECURSIVE DecimalDigits(_)
\* u128::to_string
DecimalDigits(n) ==
    IF n < 10 THEN <<48 + n>>
    ELSE DecimalDigits(n \div 10) \o <<48 + (n % 10)>>

\* http::HeaderValue::from_str accepts a string of visible ASCII, tabs and
\* bytes above 127.
IsHeaderValue(s) == \A i \in DOMAIN s : (s[i] >= 32 /\ s[i] # 127) \/ s[i] = 9

STR_Accesstoken == <<65, 99, 99, 101, 115, 115, 116, 111, 107, 101, 110, 61>>  \* "Accesstoken="
STR_Amp         == <<38>>                                                      \* "&"
STR_Appid       == <<65, 112, 112, 105, 100, 61>>                              \* "Appid="
STR_Keyid       == <<38, 75, 101, 121, 105, 100, 61>>                          \* "&Keyid="
STR_Nonce       == <<38, 78, 111, 110, 99, 101, 61>>                           \* "&Nonce="
STR_Time        == <<38, 84, 105, 109, 101, 61>>                               \* "&Time="
STR_Json        == <<97, 112, 112, 108, 105, 99, 97, 116, 105, 111, 110, 47, 106, 115, 111, 110>>  \* "application/json"

(***************************************************************************)
(* util/time.rs and auth.rs: the signer                                    *)
(***************************************************************************)
NONCE_LEN == 30

\* rand::distr::Alphanumeric
Alphanumeric ==
    [i \in 1..62 |-> IF i <= 26 THEN 64 + i ELSE IF i <= 52 THEN 70 + i ELSE i - 5]

\* generate_nonce: 30 random alphanumeric characters.  The k-th draw of the
\* generator differs from every earlier draw (the generator does not repeat
\* within a run of the model).
generate_nonce(k) ==
    [i \in 1..NONCE_LEN |-> IF i = 1 THEN Alphanumeric[k] ELSE Alphanumeric[27]]

\* unix_timestamp_millis, read when the clock shows t
unix_timestamp_millis(t) ==
    IF t < 0
    THEN Err(Transport("system clock is before unix epoch"))
    ELSE Ok(DecimalDigits(DurationAsMillis(t)))

\* The string to digest with the token prefix whenever a token is given,
\* whatever include_access_token says
SignStrAnyInclude(credentials, token, nonce, time, include_access_token) ==
    (IF token.some /\ token.v # <<>>
        THEN STR_Accesstoken \o token.v \o STR_Amp
        ELSE <<>>)
    \o STR_Appid \o credentials.app_id
    \o STR_Keyid \o credentials.key_id
    \o STR_Nonce \o nonce
    \o STR_Time \o time
    \o credentials.app_key

\* The string generate_signature digests, before lower-casing.
SignStr(credentials, token, nonce, time, include_access_token) ==
    (IF include_access_token /\ token.some /\ token.v # <<>>
        THEN STR_Accesstoken \o token.v \o STR_Amp
        ELSE <<>>)
    \o STR_Appid \o credentials.app_id
    \o STR_Keyid \o credentials.key_id
    \o STR_Nonce \o nonce
    \o STR_Time \o time
    \o credentials.app_key

\* md5::compute formatted as lowercase hex.  The digest is kept as the
\* digested string itself: equal digests exactly for equal strings.
Md5Hex(s) == [md5 |-> s]

\* generate_signature
generate_signature(credentials, token, nonce, time, include_access_token) ==
    Md5Hex(to_lowercase(SignStr(credentials, token, nonce, time, include_access_token)))

\* sign_headers without the check that a required token is present
sign_headersUnchecked(credentials, token, include_access_token, k, t) ==
    LET nonce == generate_nonce(k)
        time_millis == unix_timestamp_millis(t)
    IN  IF ~time_millis.ok THEN time_millis
        ELSE Ok([nonce |-> nonce,
                 time_millis |-> time_millis.v,
                 sign |-> generate_signature(credentials, token, nonce,
                                             time_millis.v, include_access_token)])

\* sign_headers, drawing the k-th nonce and reading the clock at t
sign_headers(credentials, token, include_access_token, k, t) ==
    LET nonce == generate_nonce(k)
        time_millis == unix_timestamp_millis(t)
    IN  IF ~time_millis.ok THEN time_millis
        ELSE IF include_access_token /\ ~token.some
        THEN Err(InvalidConfig("access token is required for this operation"))
        ELSE Ok([nonce |-> nonce,
                 time_millis |-> time_millis.v,
                 sign |-> generate_signature(credentials, token, nonce,
                                             time_millis.v, include_access_token)])

(***************************************************************************)
(* client/blocking_client.rs: headers                                      *)
(***************************************************************************)
\* An insert that keeps the value a name already has
HeaderInsertKeepFirst(headers, name, value) ==
    [n \in DOMAIN headers \cup {name} |-> IF n \in DOMAIN headers THEN headers[n] ELSE value]

\* HeaderMap::insert: the new value replaces an earlier one of the same name
HeaderInsert(headers, name, value) ==
    [n \in DOMAIN headers \cup {name} |-> IF n = name THEN value ELSE headers[n]]

EmptyHeaders == [n \in {} |-> <<>>]

\* insert_header_str
insert_header_str(headers, name, value) ==
    IF ~IsHeaderValue(value)
    THEN Err(InvalidConfig(<<"invalid header value for", name>>))
    ELSE Ok(HeaderInsert(headers, name, value))

\* insert_required_headers
insert_required_headers(headers, user_agent, lang) ==
    IF ~IsHeaderValue(user_agent)
    THEN Err(InvalidConfig("invalid user-agent header value"))
    ELSE LET h1 == HeaderInsert(headers, "user-agent", user_agent)
             h2 == HeaderInsert(h1, "content-type", STR_Json)
         IN  IF ~IsHeaderValue(lang)
             THEN Err(InvalidConfig("invalid lang header value"))
             ELSE Ok(HeaderInsert(h2, "lang", lang))

\* insert_signature_headers.  The sign value is 32 hex digits, always a
\* valid header value.
insert_signature_headers(headers, credentials, signature, token, include_access_token) ==
    LET h1 == insert_header_str(headers, "appid", credentials.app_id)
        h2 == IF h1.ok THEN insert_header_str(h1.v, "keyid", credentials.key_id) ELSE h1
        h3 == IF h2.ok THEN insert_header_str(h2.v, "nonce", signature.nonce) ELSE h2
        h4 == IF h3.ok THEN insert_header_str(h3.v, "time", signature.time_millis) ELSE h3
        h5 == IF h4.ok THEN Ok(HeaderInsert(h4.v, "sign", signature.sign)) ELSE h4
    IN  IF h5.ok /\ include_access_token /\ token.some
        THEN insert_header_str(h5.v, "accesstoken", token.v)
        ELSE h5

(***************************************************************************)
(* serde_json values.  A Value is a record tagged by `t`; the members of   *)
(* an object are a sequence of [k, v] in the order of the map.             *)
(***************************************************************************)
JNull == [t |-> "null"]

JBool(b) == [t |-> "bool", b |-> b]

JNum(n) == [t |-> "num", n |-> n]

JStr(s) == [t |-> "str", s |-> s]

JArr(items) == [t |-> "arr", items |-> items]

JObj(members) == [t |-> "obj", members |-> members]

Member(k, v) == [k |-> k, v |-> v]

\* Value::get(key): the value of the member named key of an object
JGet(value, key) ==
    IF value.t = "obj" /\ \E i \in DOMAIN value.members : value.members[i].k = key
    THEN Some(value.members[CHOOSE i \in DOMAIN value.members :
                                 value.members[i].k = key].v)
    ELSE None

RECURSIVE to_string(_), JoinItems(_, _), JoinMembers(_, _)
\* Value::to_string: compact JSON.  Strings of the model hold no character
\* that is escaped; numbers are natural numbers.
to_string(value) ==
    CASE value.t = "null" -> <<110, 117, 108, 108>>
      [] value.t = "bool" -> IF value.b THEN <<116, 114, 117, 101>>
                                        ELSE <<102, 97, 108, 115, 101>>
      [] value.t = "num"  -> DecimalDigits(value.n)
      [] value.t = "str"  -> <<34>> \o value.s \o <<34>>
      [] value.t = "arr"  -> <<91>> \o JoinItems(value.items, 1) \o <<93>>
      [] value.t = "obj"  -> <<123>> \o JoinMembers(value.members, 1) \o <<125>>

JoinItems(items, i) ==
    IF i > Len(items) THEN <<>>
    ELSE (IF i > 1 THEN <<44>> ELSE <<>>) \o to_string(items[i]) \o JoinItems(items, i + 1)

JoinMembers(members, i) ==
    IF i > Len(members) THEN <<>>
    ELSE (IF i > 1 THEN <<44>> ELSE <<>>)
         \o <<34>> \o members[i].k \o <<34, 58>> \o to_string(members[i].v)
         \o JoinMembers(members, i + 1)

(***************************************************************************)
(* util/redact.rs                                                          *)
(***************************************************************************)
STR_REDACTED == <<91, 82, 69, 68, 65, 67, 84, 69, 68, 93>>      \* "[REDACTED]"
STR_token    == <<116, 111, 107, 101, 110>>                      \* "token"

\* The keys is_sensitive_key matches whole
SensitiveKeys ==
    {<<97, 99, 99, 101, 115, 115, 116, 111, 107, 101, 110>>,             \* "accesstoken"
     <<97, 99, 99, 101, 115, 115, 95, 116, 111, 107, 101, 110>>,         \* "access_token"
     <<97, 99, 99, 101, 115, 115, 45, 116, 111, 107, 101, 110>>,         \* "access-token"
     STR_token,
     <<114, 101, 102, 114, 101, 115, 104, 95, 116, 111, 107, 101, 110>>, \* "refresh_token"
     <<114, 101, 102, 114, 101, 115, 104, 116, 111, 107, 101, 110>>,     \* "refreshtoken"
     <<97, 112, 112, 107, 101, 121>>,                                    \* "appkey"
     <<97, 112, 112, 95, 107, 101, 121>>,                                \* "app_key"
     <<112, 97, 115, 115, 119, 111, 114, 100>>,                          \* "password"
     <<115, 101, 99, 114, 101, 116>>}                                    \* "secret"

\* char::is_whitespace on the ASCII range
IsWhitespace(ch) == ch \in {9, 10, 11, 12, 13, 32}

\* str::trim
trim(s) ==
    LET kept == {i \in DOMAIN s : ~IsWhitespace(s[i])}
    IN  IF kept = {} THEN <<>>
        ELSE SubSeq(s, CHOOSE i \in kept : \A j \in kept : i <= j,
                       CHOOSE i \in kept : \A j \in kept : i >= j)

\* str::to_ascii_lowercase
to_ascii_lowercase(s) == [i \in DOMAIN s |-> ToLowerChar(s[i])]

\* str::contains
contains(s, pat) ==
    \E i \in 1..(Len(s) - Len(pat) + 1) : SubSeq(s, i, i + Len(pat) - 1) = pat

\* is_sensitive_key comparing the key as written, without trimming it
is_sensitive_keyUntrimmed(key) ==
    LET k == to_ascii_lowercase(key)
    IN  k \in SensitiveKeys \/ contains(k, STR_token)

\* is_sensitive_key
is_sensitive_key(key) ==
    LET k == to_ascii_lowercase(trim(key))
    IN  k \in SensitiveKeys \/ contains(k, STR_token)

RECURSIVE redact_value_in_place(_), redact_map_in_place(_)
\* redact_value_in_place: the value it leaves behind
redact_value_in_place(value) ==
    CASE value.t = "obj" -> JObj(redact_map_in_place(value.members))
      [] value.t = "arr" -> JArr([i \in DOMAIN value.items |->
                                     redact_value_in_place(value.items[i])])
      [] OTHER           -> value

\* redact_map_in_place: the members it leaves behind
redact_map_in_place(members) ==
    [i \in DOMAIN members |->
        IF is_sensitive_key(members[i].k)
        THEN Member(members[i].k, JStr(STR_REDACTED))
        ELSE Member(members[i].k, redact_value_in_place(members[i].v))]

\* redact_json
redact_json(value) == redact_value_in_place(value)

\* U+FFFD REPLACEMENT CHARACTER in UTF-8
REPLACEMENT == <<239, 191, 189>>

IsContinuation(b) == b >= 128 /\ b <= 191

\* The length of the UTF-8 sequence a lead byte announces, 0 for a byte that
\* cannot lead
Utf8Width(b) ==
    IF b < 128 THEN 1
    ELSE IF b >= 194 /\ b <= 223 THEN 2
    ELSE IF b >= 224 /\ b <= 239 THEN 3
    ELSE IF b >= 240 /\ b <= 244 THEN 4
    ELSE 0

\* The bytes that may follow lead byte b as its second byte
SecondByteOk(b, c) ==
    CASE b = 224 -> c >= 160 /\ c <= 191
      [] b = 237 -> c >= 128 /\ c <= 159
      [] b = 240 -> c >= 144 /\ c <= 191
      [] b = 244 -> c >= 128 /\ c <= 143
      [] OTHER   -> IsContinuation(c)

\* How many bytes from position i on belong to one well formed character, or
\* to one maximal ill formed prefix
Utf8Chunk(bytes, i) ==
    LET w == Utf8Width(bytes[i])
        has(j) == i + j <= Len(bytes)
    IN  IF w = 0 THEN [valid |-> FALSE, len |-> 1]
        ELSE IF w = 1 THEN [valid |-> TRUE, len |-> 1]
        ELSE IF ~(has(1) /\ SecondByteOk(bytes[i], bytes[i + 1]))
             THEN [valid |-> FALSE, len |-> 1]
        ELSE IF w = 2 THEN [valid |-> TRUE, len |-> 2]
        ELSE IF ~(has(2) /\ IsContinuation(bytes[i + 2]))
             THEN [valid |-> FALSE, len |-> 2]
        ELSE IF w = 3 THEN [valid |-> TRUE, len |-> 3]
        ELSE IF ~(has(3) /\ IsContinuation(bytes[i + 3]))
             THEN [valid |-> FALSE, len |-> 3]
        ELSE [valid |-> TRUE, len |-> 4]

RECURSIVE LossyFrom(_, _)
LossyFrom(bytes, i) ==
    IF i > Len(bytes) THEN <<>>
    ELSE LET chunk == Utf8Chunk(bytes, i)
         IN  (IF chunk.valid THEN SubSeq(bytes, i, i + chunk.len - 1) ELSE REPLACEMENT)
             \o LossyFrom(bytes, i + chunk.len)

\* String::from_utf8_lossy
from_utf8_lossy(bytes) == LossyFrom(bytes, 1)

\* str::is_char_boundary
is_char_boundary(s, index) ==
    IF index = 0 THEN TRUE
    ELSE IF index >= Len(s) THEN index = Len(s)
    ELSE ~IsContinuation(s[index + 1])

\* A panic: the function does not return, the calling thread unwinds
Panic == [ok |-> FALSE, panic |-> TRUE]

IsPanic(r) == "panic" \in DOMAIN r

\* String::truncate
truncate(s, new_len) ==
    IF new_len <= Len(s)
    THEN IF is_char_boundary(s, new_len) THEN Ok(SubSeq(s, 1, new_len)) ELSE Panic
    ELSE Ok(s)

\* serde_json::from_slice::<Value>: a body is either the bytes of a JSON
\* document, held as the Value they parse to, or bytes that do not parse.
from_slice(body) == IF body.json THEN Some(body.doc) ELSE None

\* snippet_from_bytes serialising the document as it came, without
\* redacting it
snippet_from_bytesUnredacted(body, max_len) ==
    IF max_len = 0 THEN Ok(<<>>)
    ELSE LET as_json == from_slice(body)
             s == IF as_json.some
                  THEN to_string(as_json.v)
                  ELSE from_utf8_lossy(body.bytes)
         IN  IF Len(s) > max_len THEN truncate(s, max_len) ELSE Ok(s)

\* snippet_from_bytes
snippet_from_bytes(body, max_len) ==
    IF max_len = 0 THEN Ok(<<>>)
    ELSE LET as_json == from_slice(body)
             s == IF as_json.some
                  THEN to_string(redact_json(as_json.v))
                  ELSE from_utf8_lossy(body.bytes)
         IN  IF Len(s) > max_len THEN truncate(s, max_len) ELSE Ok(s)

(***************************************************************************)
(* client/blocking_client.rs: response classification                      *)
(***************************************************************************)
TOO_MANY_REQUESTS == 429

\* http::StatusCode::is_success
\* is_success taking every status below 500 for a success
is_successBelow500(status) == status >= 200 /\ status <= 499

is_success(status) == status >= 200 /\ status < 300

\* http::StatusCode::is_server_error
is_server_error(status) == status >= 500 /\ status < 600

\* A response body: the bytes of a JSON document, held as the Value they
\* parse to, or bytes that do not parse as JSON.
BodyJson(doc) == [json |-> TRUE, doc |-> doc]

BodyBytes(bytes) == [json |-> FALSE, bytes |-> bytes]

STR_code       == <<99, 111, 100, 101>>                          \* "code"
STR_requestId  == <<114, 101, 113, 117, 101, 115, 116, 73, 100>> \* "requestId"
STR_request_id == <<114, 101, 113, 117, 101, 115, 116, 95, 105, 100>>  \* "request_id"
STR_message    == <<109, 101, 115, 115, 97, 103, 101>>           \* "message"
STR_msg        == <<109, 115, 103>>                              \* "msg"
STR_result     == <<114, 101, 115, 117, 108, 116>>               \* "result"
STR_rid        == <<114, 49>>                                    \* a request id, "r1"

\* "boom"
BodyNotJson == BodyBytes(<<98, 111, 111, 109>>)

\* {"error":"boom"}
BodyOtherJson ==
    BodyJson(JObj(<<Member(<<101, 114, 114, 111, 114>>, JStr(<<98, 111, 111, 109>>))>>))

\* {"code":code,"message":message,"requestId":"r1"}
BodyEnvelope(code, message) ==
    BodyJson(JObj(<<Member(STR_code, JNum(code)),
                    Member(STR_message, JStr(message)),
                    Member(STR_requestId, JStr(STR_rid))>>))

\* serde_json::from_slice::<AqaraEnvelope<Value>>: code is an integer,
\* requestId (alias request_id) and message (alias msg) are strings and each
\* is given once, result is optional and null reads as absent; members of
\* other names are ignored.
DecodeEnvelope(body) ==
    LET value      == from_slice(body)
        code       == JGet(value.v, STR_code)
        requestId  == JGet(value.v, STR_requestId)
        request_id == JGet(value.v, STR_request_id)
        message    == JGet(value.v, STR_message)
        msg        == JGet(value.v, STR_msg)
        result_    == JGet(value.v, STR_result)
        rid        == IF requestId.some THEN requestId ELSE request_id
        text       == IF message.some THEN message ELSE msg
    IN  IF /\ value.some
           /\ value.v.t = "obj"
           /\ code.some /\ code.v.t = "num"
           /\ requestId.some # request_id.some
           /\ rid.v.t = "str"
           /\ message.some # msg.some
           /\ text.v.t = "str"
        THEN Ok([code |-> code.v.n, request_id |-> rid.v.s, message |-> text.v.s,
                 result |-> IF result_.some /\ result_.v.t # "null" THEN result_ ELSE None])
        ELSE Err("failed to decode response body")

\* HeaderValue::to_str succeeds on visible ASCII and tabs
to_str_ok(value) == \A i \in DOMAIN value : (value[i] >= 32 /\ value[i] < 127) \/ value[i] = 9

\* extract_request_id
extract_request_id(headers, body) ==
    LET header == IF headers.x_request_id.some THEN headers.x_request_id
                  ELSE IF headers.request_id.some THEN headers.request_id
                  ELSE headers.x_correlation_id
        from_headers == IF header.some /\ to_str_ok(header.v) THEN header ELSE None
        value == from_slice(body)
        field == IF JGet(value.v, STR_requestId).some
                 THEN JGet(value.v, STR_requestId)
                 ELSE JGet(value.v, STR_request_id)
    IN  IF from_headers.some THEN from_headers
        ELSE IF ~value.some THEN None
        ELSE IF field.some /\ field.v.t = "str" THEN Some(field.v.s)
        ELSE None

\* snippet_if_enabled: None, Some(snippet), or the panic of snippet_from_bytes
snippet_if_enabled(body) ==
    IF ~inner.body_snippet.enabled THEN None
    ELSE LET s == snippet_from_bytes(body, inner.body_snippet.max_len)
         IN  IF IsPanic(s) THEN Panic ELSE Some(s.v)

\* parse_response taking business code 0 for a success whatever the status
parse_responseAnyStatus(resp, t) ==
    LET request_id == extract_request_id(resp.headers, resp.body)
        snippet    == snippet_if_enabled(resp.body)
        envelope   == DecodeEnvelope(resp.body)
    IN  IF IsPanic(snippet) THEN Panic
        ELSE IF resp.status = TOO_MANY_REQUESTS
        THEN Err(RateLimited(parse_retry_after(resp.headers, t), request_id, snippet))
        ELSE IF ~envelope.ok
             THEN IF is_success(resp.status)
                  THEN Err(Decode("failed to decode response body", Some(resp.status),
                                  request_id, snippet))
                  ELSE Err(Http(resp.status, request_id, snippet))
        ELSE IF envelope.v.code = 429
             THEN Err(RateLimited(parse_retry_after(resp.headers, t),
                                  Some(envelope.v.request_id), snippet))
        ELSE IF envelope.v.code # 0
             THEN Err(Api(resp.status, envelope.v.code, envelope.v.message,
                          Some(envelope.v.request_id), snippet))
        ELSE Ok([status |-> resp.status, envelope |-> envelope.v])

\* parse_response keeping the request id of extract_request_id after the
\* envelope decoded
parse_responseHeaderRequestId(resp, t) ==
    LET request_id == extract_request_id(resp.headers, resp.body)
        snippet    == snippet_if_enabled(resp.body)
        envelope   == DecodeEnvelope(resp.body)
    IN  IF IsPanic(snippet) THEN Panic
        ELSE IF resp.status = TOO_MANY_REQUESTS
        THEN Err(RateLimited(parse_retry_after(resp.headers, t), request_id, snippet))
        ELSE IF ~envelope.ok
             THEN IF is_success(resp.status)
                  THEN Err(Decode("failed to decode response body", Some(resp.status),
                                  request_id, snippet))
                  ELSE Err(Http(resp.status, request_id, snippet))
        ELSE IF envelope.v.code = 429
             THEN Err(RateLimited(parse_retry_after(resp.headers, t), request_id, snippet))
        ELSE IF envelope.v.code # 0
             THEN Err(Api(resp.status, envelope.v.code, envelope.v.message,
                          request_id, snippet))
        ELSE IF ~is_success(resp.status)
             THEN Err(Http(resp.status, request_id, snippet))
        ELSE Ok([status |-> resp.status, envelope |-> envelope.v])

\* parse_response, evaluated when the clock reads t
parse_response(resp, t) ==
    LET request_id == extract_request_id(resp.headers, resp.body)
        snippet    == snippet_if_enabled(resp.body)
        envelope   == DecodeEnvelope(resp.body)
    IN  IF IsPanic(snippet) THEN Panic
        ELSE IF resp.status = TOO_MANY_REQUESTS
        THEN Err(RateLimited(parse_retry_after(resp.headers, t), request_id, snippet))
        ELSE IF ~envelope.ok
             THEN IF is_success(resp.status)
                  THEN Err(Decode("failed to decode response body", Some(resp.status),
                                  request_id, snippet))
                  ELSE Err(Http(resp.status, request_id, snippet))
        ELSE IF envelope.v.code = 429
             THEN Err(RateLimited(parse_retry_after(resp.headers, t),
                                  Some(envelope.v.request_id), snippet))
        ELSE IF envelope.v.code # 0
             THEN Err(Api(resp.status, envelope.v.code, envelope.v.message,
                          Some(envelope.v.request_id), snippet))
        ELSE IF ~is_success(resp.status)
             THEN Err(Http(resp.status, Some(envelope.v.request_id), snippet))
        ELSE Ok([status |-> resp.status, envelope |-> envelope.v])

\* snippet_json_if_enabled: serde_json::to_vec(value) gives bytes that parse
\* back to value
snippet_json_if_enabled(value) ==
    IF ~inner.body_snippet.enabled THEN None
    ELSE LET s == snippet_from_bytes(BodyJson(value), inner.body_snippet.max_len)
         IN  IF IsPanic(s) THEN Panic ELSE Some(s.v)

\* call::<Req, Res>, from the return of call_value on: `returned` is what
\* call_value returned, `result_decodes` whether serde_json::from_value
\* reads the envelope's result as a Res
CallTyped(returned, result_decodes) ==
    IF IsPanic(returned) \/ ~returned.ok THEN returned
    ELSE IF ~returned.v.envelope.result.some THEN returned
    ELSE LET snippet == snippet_json_if_enabled(returned.v.envelope.result.v)
         IN  IF IsPanic(snippet) THEN Panic
             ELSE IF result_decodes THEN returned
             ELSE Err(Decode("failed to decode response result",
                             Some(returned.v.status),
                             Some(returned.v.envelope.request_id), snippet))

(***************************************************************************)
(* error.rs: the category of an error                                      *)
(***************************************************************************)
\* status_to_kind
status_to_kind(status) ==
    IF ~status.some THEN None
    ELSE CASE status.v \in {401, 403} -> Some("Auth")
           [] status.v = 404          -> Some("NotFound")
           [] status.v = 409          -> Some("Conflict")
           [] status.v = 429          -> Some("RateLimited")
           [] OTHER                   -> None

\* code_to_kind
code_to_kind(code) ==
    CASE code \in {106, 107, 108, 109, 403} -> Some("Auth")
      [] code = 429                         -> Some("RateLimited")
      [] OTHER                              -> None

\* Error::kind looking at the HTTP status before the business code
kindStatusFirst(err) ==
    CASE err.variant = "InvalidConfig" -> "InvalidConfig"
      [] err.variant = "Transport"     -> "Transport"
      [] err.variant = "Decode"        -> "Decode"
      [] err.variant = "RateLimited"   -> "RateLimited"
      [] err.variant = "Api" ->
            LET by_status == status_to_kind(err.status)
                by_code   == IF err.code.some THEN code_to_kind(err.code.v) ELSE None
                found     == IF by_status.some THEN by_status ELSE by_code
            IN  IF found.some THEN found.v ELSE "Api"
      [] err.variant = "Http" ->
            LET by_status == status_to_kind(Some(err.status))
            IN  IF by_status.some THEN by_status.v ELSE "Transport"

\* Error::kind
kind(err) ==
    CASE err.variant = "InvalidConfig" -> "InvalidConfig"
      [] err.variant = "Transport"     -> "Transport"
      [] err.variant = "Decode"        -> "Decode"
      [] err.variant = "RateLimited"   -> "RateLimited"
      [] err.variant = "Api" ->
            LET by_code == IF err.code.some THEN code_to_kind(err.code.v) ELSE None
                found   == IF by_code.some THEN by_code ELSE status_to_kind(err.status)
            IN  IF found.some THEN found.v ELSE "Api"
      [] err.variant = "Http" ->
            LET by_status == status_to_kind(Some(err.status))
            IN  IF by_status.some THEN by_status.v ELSE "Transport"

(***************************************************************************)
(* client/blocking_client.rs: retry decisions                              *)
(***************************************************************************)
\* should_retry_status allowing one attempt too many
should_retry_statusOffByOne(status, idempotent, att, max) ==
    IF ~idempotent \/ att > max
    THEN FALSE
    ELSE status = TOO_MANY_REQUESTS \/ is_server_error(status)

\* should_retry_status taking every status from 500 up for a server error
should_retry_statusFrom500(status, idempotent, att, max) ==
    IF ~idempotent \/ att >= max
    THEN FALSE
    ELSE status = TOO_MANY_REQUESTS \/ status >= 500

\* should_retry_status
should_retry_status(status, idempotent, att, max) ==
    IF ~idempotent \/ att >= max
    THEN FALSE
    ELSE status = TOO_MANY_REQUESTS \/ is_server_error(status)

\* retry_delay_for_status: the delays it can return
retry_delay_for_status(resp, att, retry_cfg, t) ==
    IF parse_retry_after(resp.headers, t).some
    THEN {parse_retry_after(resp.headers, t).v}
    ELSE compute_backoff_with_jitter(att, retry_cfg)

\* is_retryable_api_code taking the auth code 106 for retryable
is_retryable_api_codeWith106(code) == code \in {100, 104, 106, 429, 500, 501}

\* is_retryable_api_code
is_retryable_api_code(code) == code \in {100, 104, 429, 500, 501}

\* should_retry_error
should_retry_error(err) ==
    CASE err.variant = "RateLimited" -> TRUE
      [] err.variant = "Api"         -> err.code.some /\ is_retryable_api_code(err.code.v)
      [] OTHER                       -> FALSE

\* retry_delay_for_error: the delays it can return
retry_delay_for_error(err, att, retry_cfg) ==
    IF err.variant = "RateLimited"
    THEN IF err.retry_after.some
         THEN {err.retry_after.v}
         ELSE compute_backoff_with_jitter(att, retry_cfg)
    ELSE compute_backoff_with_jitter(att, retry_cfg)

NoResult == [ok |-> FALSE, pending |-> TRUE]

NoDelay == 0

\* LoopStep retrying a retryable transport failure without looking at
\* idempotent or at the attempts left
LoopStepUnguardedTransport(outcome, idempotent, att, max, retry_cfg, t) ==
    IF outcome.kind = "response"
    THEN IF should_retry_status(outcome.resp.status, idempotent, att, max)
         THEN {[decision |-> "retry_status", delay |-> d, result |-> NoResult] :
                  d \in retry_delay_for_status(outcome.resp, att, retry_cfg, t)}
         ELSE LET parsed == parse_response(outcome.resp, t)
              IN  IF IsPanic(parsed)
                  THEN {[decision |-> "panic", delay |-> NoDelay, result |-> NoResult]}
                  ELSE IF parsed.ok
                  THEN {[decision |-> "return", delay |-> NoDelay, result |-> parsed]}
                  ELSE IF idempotent /\ att < max /\ should_retry_error(parsed.err)
                       THEN {[decision |-> "retry_error", delay |-> d, result |-> NoResult] :
                                d \in retry_delay_for_error(parsed.err, att, retry_cfg)}
                       ELSE {[decision |-> "return", delay |-> NoDelay, result |-> parsed]}
    ELSE IF retryable(outcome.err)
         THEN {[decision |-> "retry_transport", delay |-> d, result |-> NoResult] :
                  d \in compute_backoff_with_jitter(att, retry_cfg)}
         ELSE {[decision |-> "return", delay |-> NoDelay,
                result |-> Err(Transport(outcome.err.message))]}

\* LoopStep reporting, once retries are used up, that they are used up
\* instead of the error of the attempt that ended
LoopStepExhausted(outcome, idempotent, att, max, retry_cfg, t) ==
    IF outcome.kind = "response"
    THEN IF should_retry_status(outcome.resp.status, idempotent, att, max)
         THEN {[decision |-> "retry_status", delay |-> d, result |-> NoResult] :
                  d \in retry_delay_for_status(outcome.resp, att, retry_cfg, t)}
         ELSE LET parsed == parse_response(outcome.resp, t)
              IN  IF IsPanic(parsed)
                  THEN {[decision |-> "panic", delay |-> NoDelay, result |-> NoResult]}
                  ELSE IF parsed.ok
                  THEN {[decision |-> "return", delay |-> NoDelay, result |-> parsed]}
                  ELSE IF idempotent /\ att < max /\ should_retry_error(parsed.err)
                       THEN {[decision |-> "retry_error", delay |-> d, result |-> NoResult] :
                                d \in retry_delay_for_error(parsed.err, att, retry_cfg)}
                       ELSE IF att > 1 /\ att >= max
                       THEN {[decision |-> "return", delay |-> NoDelay,
                              result |-> Err(Transport("retries exhausted"))]}
                       ELSE {[decision |-> "return", delay |-> NoDelay, result |-> parsed]}
    ELSE IF idempotent /\ att < max /\ retryable(outcome.err)
         THEN {[decision |-> "retry_transport", delay |-> d, result |-> NoResult] :
                  d \in compute_backoff_with_jitter(att, retry_cfg)}
         ELSE {[decision |-> "return", delay |-> NoDelay,
                result |-> Err(Transport(outcome.err.message))]}

\* One pass through the loop body of execute_with_retry after transport.send
\* returned `outcome`: what the loop does next.  A set, because the backoff
\* jitter is random.  A panic inside parse_response ends the pass: nothing
\* is returned.
LoopStep(outcome, idempotent, att, max, retry_cfg, t) ==
    IF outcome.kind = "response"
    THEN IF should_retry_status(outcome.resp.status, idempotent, att, max)
         THEN {[decision |-> "retry_status", delay |-> d, result |-> NoResult] :
                  d \in retry_delay_for_status(outcome.resp, att, retry_cfg, t)}
         ELSE LET parsed == parse_response(outcome.resp, t)
              IN  IF IsPanic(parsed)
                  THEN {[decision |-> "panic", delay |-> NoDelay, result |-> NoResult]}
                  ELSE IF parsed.ok
                  THEN {[decision |-> "return", delay |-> NoDelay, result |-> parsed]}
                  ELSE IF idempotent /\ att < max /\ should_retry_error(parsed.err)
                       THEN {[decision |-> "retry_error", delay |-> d, result |-> NoResult] :
                                d \in retry_delay_for_error(parsed.err, att, retry_cfg)}
                       ELSE {[decision |-> "return", delay |-> NoDelay, result |-> parsed]}
    ELSE IF idempotent /\ att < max /\ retryable(outcome.err)
         THEN {[decision |-> "retry_transport", delay |-> d, result |-> NoResult] :
                  d \in compute_backoff_with_jitter(att, retry_cfg)}
         ELSE {[decision |-> "return", delay |-> NoDelay,
                result |-> Err(Transport(outcome.err.message))]}

(***************************************************************************)
(* transport/blocking_transport.rs                                         *)
(***************************************************************************)
UreqErrors == {"Timeout", "Io", "HostNotFound", "ConnectionFailed", "BadUri", "Protocol"}

\* map_ureq_error
map_ureq_error(err) ==
    [kind |-> CASE err = "Timeout" -> "Timeout"
                [] err \in {"Io", "HostNotFound", "ConnectionFailed", "BadUri"} -> "Connect"
                [] OTHER -> "Other",
     message |-> err]

(***************************************************************************)
(* Values the model draws its inputs from                                  *)
(***************************************************************************)
STR_en     == <<101, 110>>      \* "en"
STR_ua     == <<117, 97>>       \* a User-Agent
STR_ua_bad == <<117, 10>>       \* a User-Agent holding a line feed
STR_tok    == <<84, 107>>       \* an access token, "Tk"
STR_tok_bad == <<84, 10>>       \* an access token holding a line feed

TheCredentials == [app_id |-> <<65, 49>>, key_id |-> <<75, 49>>, app_key |-> <<115, 75>>]

\* Tokens a caller hands to set_access_token
TokenValues == {STR_tok}

\* Tokens a builder is given: none, a token, a token holding a line feed
BuilderTokens == {None, Some(STR_tok), Some(STR_tok_bad)}

MaxRetriesValues == (0..MaxRetries) \cup {U32_MAX}

BaseDelays == {0, 2000}

MaxDelays == {1500}

RetryConfigs ==
    [max_retries : MaxRetriesValues, base_delay : BaseDelays, max_delay : MaxDelays]

StartTimes == {-1000, 0}

Statuses == {200, 404, 429, 500, 599, 600}

BusinessCodes == {0, 1, 100, 104, 106, 429, 500, 501}

RetryAfterValues ==
    {RetryAfterAbsent, RetryAfterGarbage, RetryAfterSeconds(0), RetryAfterSeconds(1),
     RetryAfterDate(2000000)}

\* A message of one two-byte character, U+00E9
STR_e_acute == <<195, 169>>

\* "service unavailable: " and U+00E9, which lies across byte offset 22
BodyNotJsonAccent ==
    BodyBytes(<<115, 101, 114, 118, 105, 99, 101, 32, 117, 110, 97, 118, 97, 105, 108,
                97, 98, 108, 101, 58, 32>> \o STR_e_acute)

Bodies ==
    {BodyNotJson, BodyOtherJson, BodyNotJsonAccent,
     BodyEnvelope(0, STR_e_acute), BodyEnvelope(1, STR_e_acute)}
    \cup {BodyEnvelope(c, STR_msg) : c \in BusinessCodes}

\* Response headers the client reads: Retry-After and the three request id
\* headers
ResponseHeaders(retryAfters, requestIds) ==
    [retry_after : retryAfters, x_request_id : requestIds, request_id : requestIds,
     x_correlation_id : requestIds]

Responses ==
    [status : Statuses, headers : ResponseHeaders(RetryAfterValues, {None}), body : Bodies]

DefaultBodySnippet == [enabled |-> TRUE, max_len |-> 2048]

\* BodySnippetConfig::new(true, 22): snippets of 22 bytes, the length of
\* {"code":0,"message":" and one byte more
ShortBodySnippet == [enabled |-> TRUE, max_len |-> 22]

\* What one transport.send can return
SendOutcomes ==
    {[kind |-> "response", resp |-> r] : r \in Responses}
    \cup {[kind |-> "error", err |-> map_ureq_error(e)] : e \in UreqErrors}

CallOptions == [include_access_token : BOOLEAN, idempotent : BOOLEAN]

Datas == {"params", "unencodable"}

\* serde_json::to_vec of AqaraIntentRequest {intent, data}
EncodeBody(intent, data) ==
    IF data = "unencodable"
    THEN Err(Decode("failed to encode request body", None, None, None))
    ELSE Ok(<<"intent", intent, "data", data>>)

NoCall == [intent |-> "", data |-> "", options |-> [include_access_token |-> FALSE, idempotent |-> FALSE]]

NoRequest == [url |-> "", headers |-> EmptyHeaders, body |-> <<>>]

NoOutcome == [outcome |-> [kind |-> "none"], decision |-> "none", at |-> 0]

NoProbe == [fn |-> "none"]

(***************************************************************************)
(* Construction                                                            *)
(***************************************************************************)
\* BlockingClient::from_builder, once for every client of `handles`, each
\* from a builder of the same configuration.  `handles` are the ways the
\* threads' BlockingClient values point to the clients built (two threads
\* with the same client hold clones), `callers` the threads that will call.
InitBuilt(retryConfigs, userAgents, builderTokens, snippetConfigs, extraHeaders, handles, callers) ==
    /\ inner \in [base_url      : {"https://open-cn.aqara.com/v3.0/open/api"},
                  credentials   : {TheCredentials},
                  lang          : {STR_en},
                  user_agent    : userAgents,
                  retry         : retryConfigs,
                  body_snippet  : snippetConfigs,
                  extra_headers : extraHeaders]
    /\ handle \in handles
    /\ access_token \in [{handle[c] : c \in Threads} -> builderTokens]
    /\ poisoned = {}
    /\ now \in StartTimes
    /\ rng = 0
    /\ pc = [c \in Threads |-> IF c \in callers THEN "idle" ELSE "off"]
    /\ call = [c \in Threads |-> NoCall]
    /\ req = [c \in Threads |-> NoRequest]
    /\ max_attempts = [c \in Threads |-> 0]
    /\ attempt = [c \in Threads |-> 0]
    /\ delay = [c \in Threads |-> NoDelay]
    /\ result = [c \in Threads |-> NoResult]
    /\ sent = [c \in Threads |-> <<>>]
    /\ last = [c \in Threads |-> NoOutcome]

\* One client built with no extra headers; every thread holds a clone of it
InitClient(retryConfigs, userAgents, builderTokens, snippetConfigs, callers) ==
    InitBuilt(retryConfigs, userAgents, builderTokens, snippetConfigs, {EmptyHeaders},
              {[c \in Threads |-> 1]}, callers)

Init ==
    /\ InitClient(RetryConfigs, {STR_ua, STR_ua_bad},
                  BuilderTokens, {ShortBodySnippet}, {1})
    /\ probe = NoProbe

(***************************************************************************)
(* Operations                                                              *)
(***************************************************************************)
\* The read guard kept by call_value until execute_with_retry returns
HoldsReadGuardUntilReturn(c) == pc[c] \in {"send", "sleep"}

\* The thread c is inside read_access_token, holding the read guard of the
\* lock.  The guard is a local of read_access_token and is dropped when it
\* returns the clone: call_value holds no guard when it goes on to sign, to
\* send or to sleep, so no position between two steps of a call is inside.
HoldsReadGuard(c) == pc[c] \in {}

\* RwLock::write returns at once: no handle of client k holds a read guard
WriteLockFree(k) == \A c \in Threads : handle[c] = k => ~HoldsReadGuard(c)

\* RwLock::write and RwLock::read on the lock of client k: Ok(guard), or
\* Err(PoisonError) holding the guard when the lock is poisoned
LockResult(k) == [ok |-> k \notin poisoned, guard |-> k]

\* match lock { Ok(g) => g, Err(poisoned) => poisoned.into_inner() }: the
\* guard, whether or not the lock is poisoned
into_guard(locked) == locked.guard

\* set_access_token unwrapping the result of write(): it panics on a
\* poisoned lock and stores nothing
SetAccessTokenUnwrap(k, t) ==
    /\ WriteLockFree(k)
    /\ LockResult(k).ok
    /\ access_token' = [access_token EXCEPT ![into_guard(LockResult(k))] = Some(t)]
    /\ UNCHANGED <<inner, handle, poisoned, now, rng, pc, call, req, max_attempts, attempt, delay,
                   result, sent, last, probe>>

\* set_access_token on a handle of client k
SetAccessToken(k, t) ==
    /\ WriteLockFree(k)
    /\ access_token' = [access_token EXCEPT ![into_guard(LockResult(k))] = Some(t)]
    /\ UNCHANGED <<inner, handle, poisoned, now, rng, pc, call, req, max_attempts, attempt, delay,
                   result, sent, last, probe>>

\* set_access_token(value) whose value.into() panics: the conversion runs
\* while the write guard is held, so the unwinding poisons the lock; the
\* assignment is not reached and the stored token stays as it was
SetAccessTokenPanics(k) ==
    /\ WriteLockFree(k)
    /\ poisoned' = poisoned \cup {into_guard(LockResult(k))}
    /\ UNCHANGED <<inner, handle, access_token, now, rng, pc, call, req, max_attempts, attempt,
                   delay, result, sent, last, probe>>

\* clear_access_token on a handle of client k
ClearAccessToken(k) ==
    /\ WriteLockFree(k)
    /\ access_token' = [access_token EXCEPT ![into_guard(LockResult(k))] = None]
    /\ UNCHANGED <<inner, handle, poisoned, now, rng, pc, call, req, max_attempts, attempt, delay,
                   result, sent, last, probe>>

\* read_access_token reading one cell shared by every client of the process
read_access_tokenProcessWide(k) == access_token[1]

\* read_access_token on a handle of client k
read_access_token(k) == access_token[into_guard(LockResult(k))]

\* max_attempts computed with a wrapping addition: max_retries + 1 is 0 for
\* max_retries = u32::MAX
MaxAttemptsWrapping(idempotent, retry_cfg) ==
    IF idempotent
    THEN IF retry_cfg.max_retries = U32_MAX THEN 0 ELSE retry_cfg.max_retries + 1
    ELSE 1

\* The local max_attempts of execute_with_retry
MaxAttempts(idempotent, retry_cfg) ==
    IF idempotent THEN SaturatingAddU32(retry_cfg.max_retries, 1) ELSE 1

\* call_value up to the first pass of the loop in execute_with_retry: builds
\* the request, or returns the error of the step that failed.  `drew` tells
\* whether sign_headers ran and consumed a nonce.
BuildRequest(k, intent, data, options) ==
    LET body_bytes == EncodeBody(intent, data)
        required   == insert_required_headers(inner.extra_headers, inner.user_agent, inner.lang)
        token      == read_access_token(k)
        signature  == sign_headers(inner.credentials, token,
                                   options.include_access_token, rng + 1, now)
        headers    == insert_signature_headers(required.v, inner.credentials,
                                               signature.v, token,
                                               options.include_access_token)
    IN  IF ~body_bytes.ok THEN [drew |-> FALSE, req |-> body_bytes]
        ELSE IF ~required.ok THEN [drew |-> FALSE, req |-> required]
        ELSE IF ~signature.ok THEN [drew |-> TRUE, req |-> signature]
        ELSE IF ~headers.ok THEN [drew |-> TRUE, req |-> headers]
        ELSE [drew |-> TRUE,
              req |-> Ok([url |-> inner.base_url, headers |-> headers.v,
                          body |-> body_bytes.v])]

\* call_value, entered by thread c
CallValue(c, intent, data, options) ==
    /\ pc[c] = "idle"
    /\ LET built == BuildRequest(handle[c], intent, data, options)
       IN  /\ rng' = IF built.drew THEN rng + 1 ELSE rng
           /\ call' = [call EXCEPT ![c] = [intent |-> intent, data |-> data,
                                           options |-> options]]
           /\ IF built.req.ok
              THEN /\ req' = [req EXCEPT ![c] = built.req.v]
                   /\ max_attempts' = [max_attempts EXCEPT
                                          ![c] = MaxAttempts(options.idempotent, inner.retry)]
                   /\ attempt' = [attempt EXCEPT ![c] = 0]
                   /\ pc' = [pc EXCEPT ![c] = "send"]
                   /\ UNCHANGED result
              ELSE /\ result' = [result EXCEPT ![c] = built.req]
                   /\ pc' = [pc EXCEPT ![c] = "done"]
                   /\ UNCHANGED <<req, max_attempts, attempt>>
    /\ UNCHANGED <<inner, handle, poisoned, access_token, now, delay, sent, last, probe>>

\* A pass of the loop that reads the store again and puts the token it
\* finds in the Accesstoken header of the request it sends
AttemptRereadingToken(c, outcome) ==
    /\ pc[c] = "send"
    /\ attempt[c] < AttemptCap
    /\ LET att  == SaturatingAddU32(attempt[c], 1)
           cell == access_token[handle[c]]
           request == IF call[c].options.include_access_token /\ cell.some
                      THEN [req[c] EXCEPT
                              !.headers = HeaderInsert(@, "accesstoken", cell.v)]
                      ELSE req[c]
       IN  /\ attempt' = [attempt EXCEPT ![c] = att]
           /\ sent' = [sent EXCEPT ![c] = Append(@, request)]
           /\ \E step \in LoopStep(outcome, call[c].options.idempotent, att,
                                   max_attempts[c], inner.retry, now) :
                 /\ last' = [last EXCEPT ![c] = [outcome |-> outcome,
                                                 decision |-> step.decision,
                                                 at |-> now]]
                 /\ delay' = [delay EXCEPT ![c] = step.delay]
                 /\ result' = [result EXCEPT ![c] = step.result]
                 /\ pc' = [pc EXCEPT ![c] = CASE step.decision = "return" -> "done"
                                              [] step.decision = "panic"  -> "panicked"
                                              [] OTHER                    -> "sleep"]
    /\ UNCHANGED <<inner, handle, poisoned, access_token, now, rng, call, req, max_attempts, probe>>

\* A pass of the loop that counts its attempt in a counter all the calls of
\* the process share
AttemptSharedCounter(c, outcome) ==
    /\ pc[c] = "send"
    /\ attempt[c] < AttemptCap
    /\ LET att == SaturatingAddU32(attempt[c], 1)
       IN  /\ attempt' = [d \in Threads |-> att]
           /\ sent' = [sent EXCEPT ![c] = Append(@, req[c])]
           /\ \E step \in LoopStep(outcome, call[c].options.idempotent, att,
                                   max_attempts[c], inner.retry, now) :
                 /\ last' = [last EXCEPT ![c] = [outcome |-> outcome,
                                                 decision |-> step.decision,
                                                 at |-> now]]
                 /\ delay' = [delay EXCEPT ![c] = step.delay]
                 /\ result' = [result EXCEPT ![c] = step.result]
                 /\ pc' = [pc EXCEPT ![c] = CASE step.decision = "return" -> "done"
                                              [] step.decision = "panic"  -> "panicked"
                                              [] OTHER                    -> "sleep"]
    /\ UNCHANGED <<inner, handle, poisoned, access_token, now, rng, call, req, max_attempts, probe>>

\* A pass of the loop that encodes the body again for a retry, with the
\* number of the attempt in it
AttemptEncodingAgain(c, outcome) ==
    /\ pc[c] = "send"
    /\ attempt[c] < AttemptCap
    /\ LET att == SaturatingAddU32(attempt[c], 1)
           request == IF att > 1 THEN [req[c] EXCEPT !.body = Append(@, att)] ELSE req[c]
       IN  /\ attempt' = [attempt EXCEPT ![c] = att]
           /\ sent' = [sent EXCEPT ![c] = Append(@, request)]
           /\ \E step \in LoopStep(outcome, call[c].options.idempotent, att,
                                   max_attempts[c], inner.retry, now) :
                 /\ last' = [last EXCEPT ![c] = [outcome |-> outcome,
                                                 decision |-> step.decision,
                                                 at |-> now]]
                 /\ delay' = [delay EXCEPT ![c] = step.delay]
                 /\ result' = [result EXCEPT ![c] = step.result]
                 /\ pc' = [pc EXCEPT ![c] = CASE step.decision = "return" -> "done"
                                              [] step.decision = "panic"  -> "panicked"
                                              [] OTHER                    -> "sleep"]
    /\ UNCHANGED <<inner, handle, poisoned, access_token, now, rng, call, req, max_attempts, probe>>

\* One pass of the loop of execute_with_retry: the send, and what follows it
\* up to the call of sleep or the return.
Attempt(c, outcome) ==
    /\ pc[c] = "send"
    /\ attempt[c] < AttemptCap
    /\ LET att == SaturatingAddU32(attempt[c], 1)
       IN  /\ attempt' = [attempt EXCEPT ![c] = att]
           /\ sent' = [sent EXCEPT ![c] = Append(@, req[c])]
           /\ \E step \in LoopStep(outcome, call[c].options.idempotent, att,
                                   max_attempts[c], inner.retry, now) :
                 /\ last' = [last EXCEPT ![c] = [outcome |-> outcome,
                                                 decision |-> step.decision,
                                                 at |-> now]]
                 /\ delay' = [delay EXCEPT ![c] = step.delay]
                 /\ result' = [result EXCEPT ![c] = step.result]
                 /\ pc' = [pc EXCEPT ![c] = CASE step.decision = "return" -> "done"
                                              [] step.decision = "panic"  -> "panicked"
                                              [] OTHER                    -> "sleep"]
    /\ UNCHANGED <<inner, handle, poisoned, access_token, now, rng, call, req, max_attempts, probe>>

\* sleep(delay), entered when the clock reads t: the clock reading when it
\* returns.  With a delay of zero it returns without calling thread::sleep.
sleep(d, t) == IF d = DurationFromSecs(0) THEN t ELSE t + d

\* sleep(delay) returns: a delay of zero returns at once, any other delay
\* lets the clock advance by the delay.  The loop continues: the response or
\* error of the pass that ended is dropped.
Sleep(c) ==
    /\ pc[c] = "sleep"
    /\ now' = sleep(delay[c], now)
    /\ delay' = [delay EXCEPT ![c] = NoDelay]
    /\ pc' = [pc EXCEPT ![c] = "send"]
    /\ last' = [last EXCEPT ![c] = NoOutcome]
    /\ UNCHANGED <<inner, handle, poisoned, access_token, rng, call, req, max_attempts, attempt,
                   result, sent, probe>>

Next ==
    \/ \E k \in DOMAIN access_token, t \in TokenValues : SetAccessToken(k, t)
    \/ \E k \in DOMAIN access_token : ClearAccessToken(k)
    \/ \E c \in Threads, d \in Datas, o \in CallOptions :
          CallValue(c, "query.position.info", d, o)
    \/ \E c \in Threads, outcome \in SendOutcomes : Attempt(c, outcome)
    \/ \E c \in Threads : Sleep(c)

Spec == Init /\ [][Next]_vars

(***************************************************************************)
(* The backoff function on its own                                         *)
(***************************************************************************)
ProbeAttempts == {0, 1, 2, 3, 4, 10, 31, 32, 1000, U32_MAX}

ProbeBaseDelays == {0, 500, 1000, 2000, 3000000, 2000000000}

ProbeMaxDelays == {0, 500, 1500, 3000, 5000}

ProbeRetryConfigs ==
    [max_retries : {3}, base_delay : ProbeBaseDelays, max_delay : ProbeMaxDelays]

InitBackoff ==
    /\ InitClient({[max_retries |-> 3, base_delay |-> 2000, max_delay |-> 1500]},
                  {STR_ua}, {None}, {DefaultBodySnippet}, {})
    /\ probe \in [fn : {"compute_backoff_with_jitter"}, attempt : ProbeAttempts,
                  retry : ProbeRetryConfigs, out : {None}]

\* compute_backoff_with_jitter(attempt, retry) returns
ProbeBackoff ==
    /\ probe.fn = "compute_backoff_with_jitter"
    /\ ~probe.out.some
    /\ \E d \in compute_backoff_with_jitter(probe.attempt, probe.retry) :
          probe' = [probe EXCEPT !.out = Some(d)]
    /\ UNCHANGED <<inner, handle, poisoned, access_token, now, rng, pc, call, req, max_attempts,
                   attempt, delay, result, sent, last>>

NextBackoff == ProbeBackoff

SpecBackoff == InitBackoff /\ [][NextBackoff]_vars

(***************************************************************************)
(* Properties                                                              *)
(***************************************************************************)
Started(c) == pc[c] \in {"send", "sleep", "done"}

Idempotent(c) == call[c].options.idempotent

\* attempt < max_retries + 1
AttemptsRemain(c) == attempt[c] <= inner.retry.max_retries

Handled(c) == last[c].outcome.kind # "none"

GotResponse(c) == last[c].outcome.kind = "response"

GotTransportError(c) == last[c].outcome.kind = "error"

\* The error or value the latest attempt of c amounts to
Classified(c) ==
    IF GotTransportError(c)
    THEN Err(Transport(last[c].outcome.err.message))
    ELSE parse_response(last[c].outcome.resp, last[c].at)

\* C1: a call made with idempotent = false never waits for a retry and never
\* sends twice; once it has returned after building its request it has sent
\* exactly once, whatever max_retries is and whatever that send produced,
\* and what it returns is the outcome of that one attempt (a 500 with an
\* undecodable body is an Http error with status 500).
C1_NonIdempotentSendsOnce ==
    \A c \in Threads :
        (Started(c) /\ ~Idempotent(c)) =>
            /\ pc[c] # "sleep"
            /\ Len(sent[c]) <= 1
            /\ (pc[c] = "done" /\ req[c] # NoRequest) =>
                  /\ Len(sent[c]) = 1
                  /\ Handled(c)
                  /\ result[c] = Classified(c)
                  /\ (GotTransportError(c) =>
                        result[c] = Err(Transport(last[c].outcome.err.message)))
                  /\ (GotResponse(c) /\ last[c].outcome.resp.status = 500
                        /\ ~last[c].outcome.resp.body.json =>
                        /\ result[c].err.variant = "Http"
                        /\ result[c].err.status = 500)

C1_Witness ==
    \E c \in Threads :
        /\ pc[c] = "done" /\ ~Idempotent(c) /\ Len(sent[c]) = 1
        /\ inner.retry.max_retries >= 1
        /\ GotResponse(c) /\ last[c].outcome.resp.status = 500
        /\ result[c].err.variant = "Http" /\ result[c].err.status = 500

\* C2: the attempt counter equals the number of sends made so far; it never
\* exceeds max_retries + 1 for an idempotent call and 1 for any other call;
\* a call that goes on (about to send again after an attempt, or waiting)
\* has attempts left; a call that built its request and returned sent at
\* least once.
C2_SendsWithinMaxAttempts ==
    \A c \in Threads :
        /\ Len(sent[c]) = attempt[c]
        /\ (Idempotent(c) => attempt[c] - 1 <= inner.retry.max_retries)
        /\ (~Idempotent(c) => attempt[c] <= 1)
        /\ (pc[c] = "sleep" => Idempotent(c) /\ AttemptsRemain(c))
        /\ (pc[c] = "send" /\ attempt[c] > 0 => Idempotent(c) /\ AttemptsRemain(c))
        /\ (pc[c] = "done" /\ req[c] # NoRequest => attempt[c] >= 1)

C2_Witness ==
    \E c \in Threads :
        /\ pc[c] = "done" /\ Idempotent(c)
        /\ inner.retry.max_retries = 1
        /\ attempt[c] = 2 /\ Len(sent[c]) = 2
        /\ ~result[c].ok

SignatureTriple(r) == <<r.headers["nonce"], r.headers["time"], r.headers["sign"]>>

\* C3: no two attempts of one call carry the same Nonce/Time/Sign triple.
C3_FreshSignaturePerAttempt ==
    \A c \in Threads :
        \A i, j \in 1..Len(sent[c]) :
            i < j => SignatureTriple(sent[c][i]) # SignatureTriple(sent[c][j])

\* C4: a call that returned InvalidConfig made no send and never entered the
\* retry loop, also when it is idempotent with max_retries > 0; and a call
\* that requires the access token, entered while the store is empty (with an
\* encodable body and a clock past the epoch), returns InvalidConfig with no
\* send made.
C4_InvalidConfigBeforeAnySend ==
    /\ [](\A c \in Threads :
            (pc[c] = "done" /\ ~result[c].ok /\ result[c].err.variant = "InvalidConfig") =>
                /\ sent[c] = <<>>
                /\ attempt[c] = 0
                /\ ~Handled(c))
    /\ [][\A c \in Threads :
            (/\ pc[c] = "idle" /\ pc'[c] # "idle"
             /\ call'[c].options.include_access_token
             /\ ~access_token[handle[c]].some
             /\ call'[c].data # "unencodable"
             /\ now >= 0) =>
                /\ pc'[c] = "done"
                /\ ~result'[c].ok
                /\ result'[c].err.variant = "InvalidConfig"
                /\ sent'[c] = <<>>]_vars

C4_Witness ==
    \E c \in Threads :
        /\ pc[c] = "done" /\ ~result[c].ok
        /\ result[c].err = InvalidConfig("access token is required for this operation")
        /\ Idempotent(c) /\ inner.retry.max_retries > 0
        /\ sent[c] = <<>>

\* C5: after an attempt received a response, the loop retries on account of
\* the status exactly when the call is idempotent, attempts remain, and the
\* status is 429 or in 500..599, whatever the body of the response is.
C5_StatusRetryIff ==
    \A c \in Threads :
        GotResponse(c) =>
            ((last[c].decision = "retry_status") <=>
                (/\ Idempotent(c)
                 /\ AttemptsRemain(c)
                 /\ \/ last[c].outcome.resp.status = 429
                    \/ last[c].outcome.resp.status \in 500..599))

C5_Witness ==
    \E c \in Threads :
        /\ pc[c] = "sleep" /\ last[c].decision = "retry_status"
        /\ last[c].outcome.resp.status = 599
        /\ last[c].outcome.resp.body = BodyEnvelope(0, STR_msg)

\* C6: after an attempt ended in a transport failure, the loop retries
\* exactly when the call is idempotent, attempts remain, and the failure is
\* a Timeout or a Connect failure; otherwise the call returns
\* Error::Transport with the failure's message.
C6_TransportRetryIff ==
    \A c \in Threads :
        GotTransportError(c) =>
            /\ (last[c].decision = "retry_transport") <=>
                  (/\ Idempotent(c)
                   /\ AttemptsRemain(c)
                   /\ last[c].outcome.err.kind \in {"Timeout", "Connect"})
            /\ (last[c].decision # "retry_transport") =>
                  /\ pc[c] = "done"
                  /\ result[c] = Err(Transport(last[c].outcome.err.message))

C6_Witness ==
    \E c \in Threads :
        /\ pc[c] = "done" /\ Idempotent(c) /\ AttemptsRemain(c)
        /\ GotTransportError(c) /\ last[c].outcome.err.kind = "Other"
        /\ result[c] = Err(Transport("Protocol"))

\* C7: after a response that was not retried on its status was classified
\* as an error, the loop retries exactly when the call is idempotent,
\* attempts remain, and the error is RateLimited or an Api error with code
\* 100, 104, 429, 500 or 501; any other error is returned at once.
C7_BusinessRetryIff ==
    \A c \in Threads :
        (/\ GotResponse(c) /\ last[c].decision # "retry_status"
         /\ ~IsPanic(Classified(c)) /\ ~Classified(c).ok) =>
            /\ (last[c].decision = "retry_error") <=>
                  (/\ Idempotent(c)
                   /\ AttemptsRemain(c)
                   /\ \/ Classified(c).err.variant = "RateLimited"
                      \/ /\ Classified(c).err.variant = "Api"
                         /\ Classified(c).err.code.v \in {100, 104, 429, 500, 501})
            /\ (last[c].decision # "retry_error") =>
                  /\ pc[c] = "done"
                  /\ result[c] = Classified(c)

C7_Witness ==
    \E c \in Threads :
        /\ pc[c] = "done" /\ Idempotent(c) /\ AttemptsRemain(c)
        /\ GotResponse(c)
        /\ ~result[c].ok
        /\ result[c].err.variant = "Api"
        /\ result[c].err.status = Some(200) /\ result[c].err.code = Some(106)

C7_WitnessRetry ==
    \E c \in Threads :
        /\ pc[c] = "sleep" /\ last[c].decision = "retry_error"
        /\ last[c].outcome.resp.body = BodyEnvelope(501, STR_msg)

\* C8: whenever a retry is scheduled after a response that carries a
\* parseable Retry-After header, the wait before the next attempt is the
\* Retry-After duration.
C8_RetryAfterInEveryPath ==
    \A c \in Threads :
        (/\ pc[c] = "sleep"
         /\ GotResponse(c)
         /\ parse_retry_after(last[c].outcome.resp.headers, last[c].at).some) =>
            delay[c] = parse_retry_after(last[c].outcome.resp.headers, last[c].at).v

\* C9: the wait between two consecutive attempts is at most
\* RetryConfig.max_delay.
C9_WaitAtMostMaxDelay ==
    \A c \in Threads : pc[c] = "sleep" => delay[c] <= inner.retry.max_delay

\* C10: for every attempt number and every RetryConfig, also with
\* base_delay > max_delay, the delay compute_backoff_with_jitter returns is
\* at most max_delay.
C10_BackoffAtMostMaxDelay ==
    (probe.fn = "compute_backoff_with_jitter" /\ probe.out.some) =>
        probe.out.v <= probe.retry.max_delay

C10_Witness ==
    /\ probe.fn = "compute_backoff_with_jitter" /\ probe.out.some
    /\ probe.attempt = 1000
    /\ probe.retry.base_delay = 3000000 /\ probe.retry.max_delay = 1500
    /\ probe.out.v = 1000

\* The error variant and status a response amounts to when its body does
\* not decode as an envelope
IsHttpError(r, status) ==
    ~r.ok /\ r.err.variant = "Http" /\ r.err.status = status

\* C11: the error a call returns after it made attempts is the
\* classification of the outcome of its last attempt alone: the transport
\* error of that attempt, or what parse_response makes of its response at
\* the time it arrived -- after a retry, a final response with status 500
\* and an undecodable body yields an Http error with status 500 whose
\* request id and snippet are those of that response.
C11_LastAttemptDecidesError ==
    \A c \in Threads :
        (pc[c] = "done" /\ Handled(c) /\ ~result[c].ok) =>
            /\ result[c] = Classified(c)
            /\ GotTransportError(c) =>
                  result[c] = Err(Transport(last[c].outcome.err.message))
            /\ (/\ attempt[c] >= 2 /\ GotResponse(c)
                /\ last[c].outcome.resp.status = 500
                /\ ~DecodeEnvelope(last[c].outcome.resp.body).ok) =>
                  /\ IsHttpError(result[c], 500)
                  /\ result[c].err.request_id =
                        extract_request_id(last[c].outcome.resp.headers,
                                           last[c].outcome.resp.body)
                  /\ result[c].err.body_snippet =
                        snippet_if_enabled(last[c].outcome.resp.body)

C11_Witness ==
    \E c \in Threads :
        /\ pc[c] = "done" /\ attempt[c] = 2 /\ Len(sent[c]) = 2
        /\ GotResponse(c) /\ last[c].outcome.resp.status = 500
        /\ last[c].outcome.resp.body = BodyNotJson
        /\ IsHttpError(result[c], 500)

\* The latest attempt of c received a success: a 2xx response whose body
\* decodes as an envelope with business code 0
GotSuccess(c) ==
    /\ GotResponse(c)
    /\ is_success(last[c].outcome.resp.status)
    /\ DecodeEnvelope(last[c].outcome.resp.body).ok
    /\ DecodeEnvelope(last[c].outcome.resp.body).v.code = 0

\* C12: when an attempt of an idempotent call -- the first, or one that
\* follows retried attempts -- receives a success (2xx with business code
\* 0), the call returns Ok, the sends made are exactly the attempts counted,
\* and a call that has returned sends no more.
C12_SuccessEndsTheCall ==
    \A c \in Threads :
        /\ (Idempotent(c) /\ GotSuccess(c)) =>
              /\ pc[c] = "done"
              /\ result[c].ok
              /\ Len(sent[c]) = attempt[c]
        /\ (pc[c] = "done" /\ Handled(c)) => Len(sent[c]) = attempt[c]

\* C13: a response with HTTP status 429 that is not retried on its status
\* ends the attempt in a RateLimited error for every body (an envelope,
\* other JSON, bytes that are not JSON): the body takes no part, and
\* retry_after is what the Retry-After header parses to, None without one.
C13_Status429IsRateLimited ==
    \A c \in Threads :
        (/\ GotResponse(c)
         /\ last[c].outcome.resp.status = 429
         /\ last[c].decision # "retry_status") =>
            /\ ~IsPanic(Classified(c))
            /\ ~Classified(c).ok
            /\ Classified(c).err.variant = "RateLimited"
            /\ Classified(c).err.retry_after =
                  parse_retry_after(last[c].outcome.resp.headers, last[c].at)
            /\ (last[c].outcome.resp.headers.retry_after = RetryAfterAbsent =>
                  Classified(c).err.retry_after = None)
            /\ (pc[c] = "done" => result[c] = Classified(c))

\* The envelope the body of the latest response of c decodes to
LastEnvelope(c) == DecodeEnvelope(last[c].outcome.resp.body)

LastStatus(c) == last[c].outcome.resp.status

\* C14: a response with a status other than 429 whose body does not decode
\* as an envelope is retried only on account of its status (an idempotent
\* call with attempts left and a status in 500..599); otherwise the call
\* returns at once: a Decode error carrying the status when the status is
\* 2xx, an Http error carrying the status when it is not.
C14_UndecodableBody ==
    \A c \in Threads :
        (GotResponse(c) /\ LastStatus(c) # 429 /\ ~LastEnvelope(c).ok) =>
            /\ last[c].decision \in {"retry_status", "return"}
            /\ last[c].decision = "retry_status" =>
                  /\ LastStatus(c) \in 500..599
                  /\ Idempotent(c) /\ AttemptsRemain(c)
            /\ last[c].decision = "return" =>
                  /\ pc[c] = "done"
                  /\ ~result[c].ok
                  /\ LastStatus(c) \in 200..299 =>
                        /\ result[c].err.variant = "Decode"
                        /\ result[c].err.status = Some(LastStatus(c))
                  /\ LastStatus(c) \notin 200..299 =>
                        /\ result[c].err.variant = "Http"
                        /\ result[c].err.status = LastStatus(c)

\* C15: a response with a status other than 429 that is not retried on its
\* status and whose envelope decodes with a nonzero code is classified,
\* whatever the class of the status: code 429 as RateLimited, every other
\* code as an Api error carrying the code, the envelope's message, the HTTP
\* status and the envelope's request id.
C15_NonzeroCode ==
    \A c \in Threads :
        (/\ GotResponse(c) /\ LastStatus(c) # 429
         /\ last[c].decision # "retry_status"
         /\ LastEnvelope(c).ok /\ LastEnvelope(c).v.code # 0) =>
            /\ ~IsPanic(Classified(c))
            /\ ~Classified(c).ok
            /\ LastEnvelope(c).v.code = 429 =>
                  Classified(c).err.variant = "RateLimited"
            /\ LastEnvelope(c).v.code # 429 =>
                  /\ Classified(c).err.variant = "Api"
                  /\ Classified(c).err.code = Some(LastEnvelope(c).v.code)
                  /\ Classified(c).err.message = Some(LastEnvelope(c).v.message)
                  /\ Classified(c).err.status = Some(LastStatus(c))
                  /\ Classified(c).err.request_id = Some(LastEnvelope(c).v.request_id)
            /\ (pc[c] = "done" => result[c] = Classified(c))

\* C16 as claimed: when a response with a status other than 429 that is
\* not retried on its status has an envelope that decodes with code 0, what
\* the call returns is a success holding the envelope, whatever the class of
\* the status.
C16_CodeZeroIsSuccess ==
    \A c \in Threads :
        (/\ GotResponse(c) /\ LastStatus(c) # 429
         /\ last[c].decision # "retry_status"
         /\ LastEnvelope(c).ok /\ LastEnvelope(c).v.code = 0
         /\ pc[c] = "done") =>
            /\ result[c].ok
            /\ result[c].v.envelope = LastEnvelope(c).v

\* C16 as amended: such a response is a success, returning the status and
\* the envelope, only when the status is 2xx; with a status of another
\* class the call never returns Ok: what it returns is an Http error
\* carrying the status and the envelope's request id.
C16_CodeZeroIsSuccessOnly2xx ==
    \A c \in Threads :
        (/\ GotResponse(c) /\ LastStatus(c) # 429
         /\ last[c].decision # "retry_status"
         /\ LastEnvelope(c).ok /\ LastEnvelope(c).v.code = 0
         /\ pc[c] = "done") =>
            /\ result[c].ok => /\ LastStatus(c) \in 200..299
                               /\ result[c].v.status = LastStatus(c)
                               /\ result[c].v.envelope = LastEnvelope(c).v
            /\ LastStatus(c) \notin 200..299 =>
                  /\ ~result[c].ok
                  /\ result[c].err.variant = "Http"
                  /\ result[c].err.status = LastStatus(c)
                  /\ result[c].err.request_id = Some(LastEnvelope(c).v.request_id)

C16_Witness ==
    \E c \in Threads :
        /\ pc[c] = "done" /\ GotResponse(c)
        /\ LastStatus(c) = 404
        /\ last[c].outcome.resp.body = BodyEnvelope(0, STR_msg)
        /\ IsHttpError(result[c], 404)

(***************************************************************************)
(* Error::kind as a function of the error                                  *)
(***************************************************************************)
KindStatuses == {200, 400, 401, 403, 404, 409, 429, 500, 503}

KindCodes == {0, 1, 100, 106, 107, 108, 109, 401, 403, 404, 409, 429}

\* Errors of every variant; an ApiError may lack its status, its code or both
KindErrors ==
    {[variant |-> "Api", status |-> s, code |-> c, message |-> None,
      request_id |-> None, body_snippet |-> None] :
        s \in {None} \cup {Some(x) : x \in KindStatuses},
        c \in {None} \cup {Some(x) : x \in KindCodes}}
    \cup {Http(s, None, None) : s \in KindStatuses}
    \cup {RateLimited(ra, None, None) : ra \in {None, Some(MICROS_PER_SEC)}}
    \cup {Decode("failed to decode response body", s, None, None) :
            s \in {None, Some(200)}}
    \cup {Transport("Timeout"), InvalidConfig("invalid lang header value")}

InitKind ==
    /\ InitClient({[max_retries |-> 3, base_delay |-> 2000, max_delay |-> 1500]},
                  {STR_ua}, {None}, {DefaultBodySnippet}, {})
    /\ probe \in [fn : {"kind"}, err : KindErrors, out : {None}]

\* err.kind() returns
ProbeKind ==
    /\ probe.fn = "kind"
    /\ ~probe.out.some
    /\ probe' = [probe EXCEPT !.out = Some(kind(probe.err))]
    /\ UNCHANGED <<inner, handle, poisoned, access_token, now, rng, pc, call, req, max_attempts,
                   attempt, delay, result, sent, last>>

NextKind == ProbeKind

SpecKind == InitKind /\ [][NextKind]_vars

\* C17: kind() has a result for every error.  An Api error with code 106,
\* 107, 108, 109 or 403 is Auth and with code 429 is RateLimited, whatever
\* its status; any other Api error and every Http error goes by its status:
\* 401 and 403 are Auth, 404 NotFound, 409 Conflict, 429 RateLimited; with
\* nothing mapped an Api error is Api and an Http error is Transport.
\* RateLimited, Decode, Transport and InvalidConfig are their own kind.
C17_KindTable ==
    (probe.fn = "kind" /\ probe.out.some) =>
        LET err == probe.err
            k   == probe.out.v
            byStatus(status, unmapped) ==
                IF status \in {401, 403} THEN "Auth"
                ELSE IF status = 404 THEN "NotFound"
                ELSE IF status = 409 THEN "Conflict"
                ELSE IF status = 429 THEN "RateLimited"
                ELSE unmapped
        IN  /\ k \in {"Auth", "NotFound", "Conflict", "RateLimited", "Transport",
                      "Decode", "Api", "InvalidConfig"}
            /\ err.variant \in {"RateLimited", "Decode", "Transport", "InvalidConfig"} =>
                  k = err.variant
            /\ err.variant = "Http" => k = byStatus(err.status, "Transport")
            /\ err.variant = "Api" =>
                  IF err.code.some /\ err.code.v \in {106, 107, 108, 109, 403}
                  THEN k = "Auth"
                  ELSE IF err.code.some /\ err.code.v = 429
                  THEN k = "RateLimited"
                  ELSE IF err.status.some
                  THEN k = byStatus(err.status.v, "Api")
                  ELSE k = "Api"

\* An Api error whose code and status map to different kinds
C17_Witness ==
    /\ probe.fn = "kind" /\ probe.out.some
    /\ probe.err.variant = "Api"
    /\ probe.err.code = Some(106) /\ probe.err.status = Some(404)
    /\ probe.out.v = "Auth"

(***************************************************************************)
(* redact_json as a function of the document                               *)
(***************************************************************************)
KEY_token    == <<116, 111, 107, 101, 110>>              \* "token"
KEY_Secret   == <<32, 83, 101, 99, 114, 101, 116, 32>>   \* " Secret "
KEY_myTokens == <<109, 121, 84, 111, 107, 101, 110, 115>>  \* "myTokens"
KEY_name     == <<110, 97, 109, 101>>                    \* "name"
KEY_appKey   == <<97, 112, 112, 75, 101, 121>>           \* "appKey"
KEY_secretx  == <<115, 101, 99, 114, 101, 116, 120>>     \* "secretx"
KEY_APP_KEY  == <<65, 80, 80, 95, 75, 69, 89>>           \* "APP_KEY"
KEY_password == <<112, 97, 115, 115, 119, 111, 114, 100>>  \* "password"
KEY_pass     == <<112, 97, 115, 115>>                    \* "pass"

RedactKeys ==
    {KEY_token, KEY_Secret, KEY_myTokens, KEY_name, KEY_appKey, KEY_secretx,
     KEY_APP_KEY, KEY_password, KEY_pass}

\* Values without members: a string, a number, null
RedactLeaves == {JStr(<<118>>), JNum(1), JNull}

\* One member; an object in an object; an object in an array in an object;
\* an object in an array in an array; two members
RedactDocs ==
    {JObj(<<Member(k, v)>>) : k \in RedactKeys, v \in RedactLeaves}
    \cup {JObj(<<Member(k1, JObj(<<Member(k2, v)>>))>>) :
            k1 \in RedactKeys, k2 \in RedactKeys, v \in RedactLeaves}
    \cup {JObj(<<Member(k1, JArr(<<JObj(<<Member(k2, v)>>), v>>))>>) :
            k1 \in {KEY_name, KEY_token}, k2 \in RedactKeys, v \in RedactLeaves}
    \cup {JArr(<<JArr(<<JObj(<<Member(k, v)>>)>>), JBool(TRUE)>>) :
            k \in RedactKeys, v \in RedactLeaves}
    \cup {JObj(<<Member(k1, v), Member(k2, v)>>) :
            k1 \in RedactKeys, k2 \in {KEY_name, KEY_password}, v \in RedactLeaves}

InitRedact ==
    /\ InitClient({[max_retries |-> 3, base_delay |-> 2000, max_delay |-> 1500]},
                  {STR_ua}, {None}, {DefaultBodySnippet}, {})
    /\ probe \in [fn : {"redact_json"}, value : RedactDocs, out : {None}]

\* redact_json(value) returns
ProbeRedact ==
    /\ probe.fn = "redact_json"
    /\ ~probe.out.some
    /\ probe' = [probe EXCEPT !.out = Some(redact_json(probe.value))]
    /\ UNCHANGED <<inner, handle, poisoned, access_token, now, rng, pc, call, req, max_attempts,
                   attempt, delay, result, sent, last>>

NextRedact == ProbeRedact

SpecRedact == InitRedact /\ [][NextRedact]_vars

\* A key whose value is to be redacted: trimmed and lower-cased it contains
\* "token" or is one of appkey, app_key, password, secret
NamesASecret(key) ==
    LET k == to_ascii_lowercase(trim(key))
    IN  \/ contains(k, <<116, 111, 107, 101, 110>>)
        \/ k \in {<<97, 112, 112, 107, 101, 121>>, <<97, 112, 112, 95, 107, 101, 121>>,
                  <<112, 97, 115, 115, 119, 111, 114, 100>>,
                  <<115, 101, 99, 114, 101, 116>>}

RECURSIVE RedactedFrom(_, _)
\* `after` is `before` with the value of every key that names a secret
\* replaced by "[REDACTED]", at every depth, and nothing else changed
RedactedFrom(before, after) ==
    CASE before.t = "obj" ->
            /\ after.t = "obj"
            /\ Len(after.members) = Len(before.members)
            /\ \A i \in DOMAIN before.members :
                  /\ after.members[i].k = before.members[i].k
                  /\ IF NamesASecret(before.members[i].k)
                     THEN after.members[i].v =
                             JStr(<<91, 82, 69, 68, 65, 67, 84, 69, 68, 93>>)
                     ELSE RedactedFrom(before.members[i].v, after.members[i].v)
      [] before.t = "arr" ->
            /\ after.t = "arr"
            /\ Len(after.items) = Len(before.items)
            /\ \A i \in DOMAIN before.items :
                  RedactedFrom(before.items[i], after.items[i])
      [] OTHER -> after = before

\* C18: redact_json replaces by the string [REDACTED] the value of every
\* object key that, trimmed and lower-cased, contains "token" or is one of
\* appkey, app_key, password, secret -- in objects inside objects and inside
\* arrays, whatever the value is -- and changes no other key or value.
C18_RedactsEverySecretKey ==
    (probe.fn = "redact_json" /\ probe.out.some) =>
        RedactedFrom(probe.value, probe.out.v)

\* {"name":[{" Secret ":1},1]} becomes {"name":[{" Secret ":"[REDACTED]"},1]}
C18_Witness ==
    /\ probe.fn = "redact_json" /\ probe.out.some
    /\ probe.value =
          JObj(<<Member(KEY_name, JArr(<<JObj(<<Member(KEY_Secret, JNum(1))>>), JNum(1)>>))>>)
    /\ probe.out.v =
          JObj(<<Member(KEY_name,
                        JArr(<<JObj(<<Member(KEY_Secret, JStr(STR_REDACTED))>>), JNum(1)>>))>>)

(***************************************************************************)
(* snippet_from_bytes as a function of the body and max_len                *)
(***************************************************************************)
MaxSnippetLen == 8      \* snippet lengths 0..MaxSnippetLen are drawn, and the default

SnippetLens == (0..MaxSnippetLen) \cup {DefaultBodySnippet.max_len}

\* Bytes that are not JSON: "boom", U+00E9 alone, "a" and U+00E9, the byte
\* FF, the first two bytes of U+20AC, nothing
SnippetBytes ==
    {<<98, 111, 111, 109>>, STR_e_acute, <<97>> \o STR_e_acute, <<255>>, <<226, 130>>, <<>>}

\* JSON documents: {"token":"Tk"}, a string of U+00E9, {"name":U+00E9},
\* [1,null]
SnippetDocs ==
    {JObj(<<Member(STR_token, JStr(STR_tok))>>),
     JStr(STR_e_acute),
     JObj(<<Member(<<110, 97, 109, 101>>, JStr(STR_e_acute))>>),
     JArr(<<JNum(1), JNull>>)}

SnippetBodies == {BodyBytes(b) : b \in SnippetBytes} \cup {BodyJson(d) : d \in SnippetDocs}

InitSnippet ==
    /\ InitClient({[max_retries |-> 3, base_delay |-> 2000, max_delay |-> 1500]},
                  {STR_ua}, {None}, {DefaultBodySnippet}, {})
    /\ probe \in [fn : {"snippet_from_bytes"}, body : SnippetBodies,
                  max_len : SnippetLens, out : {None}]

\* snippet_from_bytes(body, max_len) returns, or panics
ProbeSnippet ==
    /\ probe.fn = "snippet_from_bytes"
    /\ ~probe.out.some
    /\ probe' = [probe EXCEPT !.out = Some(snippet_from_bytes(probe.body, probe.max_len))]
    /\ UNCHANGED <<inner, handle, poisoned, access_token, now, rng, pc, call, req, max_attempts,
                   attempt, delay, result, sent, last>>

NextSnippet == ProbeSnippet

SpecSnippet == InitSnippet /\ [][NextSnippet]_vars

\* C19: for every body and every max_len, snippet_from_bytes returns a
\* string -- it does not panic, also when a multi-byte character lies
\* across byte offset max_len -- of at most max_len bytes, the empty string
\* when max_len is 0.
C19_SnippetWithinMaxLen ==
    (probe.fn = "snippet_from_bytes" /\ probe.out.some) =>
        /\ ~IsPanic(probe.out.v)
        /\ Len(probe.out.v.v) <= probe.max_len
        /\ (probe.max_len = 0 => probe.out.v.v = <<>>)

(***************************************************************************)
(* call as a function of the response its last attempt received            *)
(***************************************************************************)
CallSnippetConfigs ==
    {[enabled |-> FALSE, max_len |-> 2048], DefaultBodySnippet,
     [enabled |-> TRUE, max_len |-> 12]}

\* {"token":"Tk"}
DocToken == JObj(<<Member(STR_token, JStr(STR_tok))>>)

\* An envelope with a result, {"code":code,...,"result":result}
BodyEnvelopeResult(code, message, result_) ==
    BodyJson(JObj(<<Member(STR_code, JNum(code)),
                    Member(STR_message, JStr(message)),
                    Member(STR_requestId, JStr(STR_rid)),
                    Member(STR_result, result_)>>))

CallBodies ==
    {BodyNotJson, BodyJson(DocToken),
     BodyEnvelope(1, STR_msg), BodyEnvelope(429, STR_msg),
     BodyEnvelopeResult(1, STR_msg, DocToken),
     BodyEnvelopeResult(0, STR_msg, DocToken),
     BodyEnvelopeResult(0, STR_msg, JArr(<<DocToken>>)),
     BodyEnvelopeResult(0, STR_msg, JNull)}

CallResponses ==
    [status : {200, 404, 429},
     headers : ResponseHeaders({RetryAfterAbsent, RetryAfterSeconds(1)}, {None}),
     body : CallBodies]

InitCall ==
    /\ InitClient({[max_retries |-> 3, base_delay |-> 2000, max_delay |-> 1500]},
                  {STR_ua}, {None}, CallSnippetConfigs, {})
    /\ probe \in [fn : {"call"}, resp : CallResponses, result_decodes : BOOLEAN,
                  out : {None}]

\* call returns, or panics, after its last attempt received probe.resp
ProbeCall ==
    /\ probe.fn = "call"
    /\ ~probe.out.some
    /\ probe' = [probe EXCEPT
                    !.out = Some(CallTyped(parse_response(probe.resp, now),
                                           probe.result_decodes))]
    /\ UNCHANGED <<inner, handle, poisoned, access_token, now, rng, pc, call, req, max_attempts,
                   attempt, delay, result, sent, last>>

NextCall == ProbeCall

SpecCall == InitCall /\ [][NextCall]_vars

\* The first n elements of s, all of s when it is shorter
Prefix(s, n) == IF Len(s) > n THEN SubSeq(s, 1, n) ELSE s

\* The document an error's snippet is taken from: the result of the
\* envelope for the error of decoding the result, the response body for
\* every other error
SnippetSource(resp, err) ==
    IF err.variant = "Decode" /\ err.message = "failed to decode response result"
    THEN BodyJson(DecodeEnvelope(resp.body).v.result.v)
    ELSE resp.body

\* C20: an error a call returns (Http, Api, RateLimited, Decode) has no
\* body snippet when BodySnippetConfig.enabled is false.  When it is true
\* and the snippet is taken from a JSON document, the snippet is the first
\* max_len bytes of the serialisation of the whole document after
\* redaction: what is cut is already redacted.
C20_SnippetOffOrRedacted ==
    (probe.fn = "call" /\ probe.out.some /\ ~IsPanic(probe.out.v) /\ ~probe.out.v.ok) =>
        LET err == probe.out.v.err
            src == SnippetSource(probe.resp, err)
        IN  /\ err.variant \in {"Http", "Api", "RateLimited", "Decode"}
            /\ ~inner.body_snippet.enabled => err.body_snippet = None
            /\ inner.body_snippet.enabled =>
                  /\ err.body_snippet.some
                  /\ src.json =>
                        /\ RedactedFrom(src.doc, redact_json(src.doc))
                        /\ err.body_snippet.v =
                              Prefix(to_string(redact_json(src.doc)),
                                     inner.body_snippet.max_len)

\* HTTP 404 with body {"token":"Tk"} and max_len 12: the snippet is
\* {"token":"[R
C20_Witness ==
    /\ probe.fn = "call" /\ probe.out.some
    /\ inner.body_snippet = [enabled |-> TRUE, max_len |-> 12]
    /\ probe.resp.status = 404 /\ probe.resp.body = BodyJson(DocToken)
    /\ ~probe.out.v.ok
    /\ probe.out.v.err.body_snippet =
          Some(<<123, 34, 116, 111, 107, 101, 110, 34, 58, 34, 91, 82>>)

(***************************************************************************)
(* parse_response on two bodies that differ only in a secret value         *)
(***************************************************************************)
STR_accessToken  == <<97, 99, 99, 101, 115, 115, 84, 111, 107, 101, 110>>   \* "accessToken"
STR_refreshToken == <<114, 101, 102, 114, 101, 115, 104, 84, 111, 107, 101, 110>>   \* "refreshToken"
STR_text_prefix  == <<97, 99, 99, 101, 115, 115, 84, 111, 107, 101, 110, 61>>   \* "accessToken="
STR_cut_prefix   == <<123, 34, 97, 99, 99, 101, 115, 115, 84, 111, 107, 101, 110, 34, 58, 34>>   \* {"accessToken":"
STR_tok2         == <<90, 113>>   \* another access token, "Zq"

\* An access token, another one, and the app key of TheCredentials
SecretValues == {STR_tok, STR_tok2, TheCredentials.app_key}

SecretShapes == {"accessToken", "refreshToken", "appKey", "text", "cut"}

\* A response body that holds the secret s: three JSON documents,
\* {"accessToken":s}, an envelope whose result is {"refreshToken":s} and
\* {"appKey":s}, and two byte sequences serde_json does not parse,
\* accessToken=s and the document cut after the secret, {"accessToken":"s
BodyWithSecret(shape, s) ==
    CASE shape = "accessToken"  -> BodyJson(JObj(<<Member(STR_accessToken, JStr(s))>>))
      [] shape = "refreshToken" ->
            BodyEnvelopeResult(1, STR_msg, JObj(<<Member(STR_refreshToken, JStr(s))>>))
      [] shape = "appKey"       -> BodyJson(JObj(<<Member(KEY_appKey, JStr(s))>>))
      [] shape = "text"         -> BodyBytes(STR_text_prefix \o s)
      [] shape = "cut"          -> BodyBytes(STR_cut_prefix \o s)

SecretStatuses == {200, 404, 429, 500}

InitSecret ==
    /\ InitClient({[max_retries |-> 3, base_delay |-> 2000, max_delay |-> 1500]},
                  {STR_ua}, {None}, {DefaultBodySnippet, ShortBodySnippet}, {})
    /\ probe \in [fn : {"secret"}, status : SecretStatuses, shape : SecretShapes,
                  secrets : SecretValues \X SecretValues, out : {None}]

\* The response of probe.status whose body holds the secret s
SecretResponse(s) ==
    [status  |-> probe.status,
     headers |-> [retry_after |-> RetryAfterAbsent, x_request_id |-> None,
                  request_id |-> None, x_correlation_id |-> None],
     body    |-> BodyWithSecret(probe.shape, s)]

\* parse_response classifies the two responses
ProbeSecret ==
    /\ probe.fn = "secret"
    /\ ~probe.out.some
    /\ probe' = [probe EXCEPT
                    !.out = Some(<<parse_response(SecretResponse(probe.secrets[1]), now),
                                   parse_response(SecretResponse(probe.secrets[2]), now)>>)]
    /\ UNCHANGED <<inner, handle, poisoned, access_token, now, rng, pc, call, req, max_attempts,
                   attempt, delay, result, sent, last>>

NextSecret == ProbeSecret

SpecSecret == InitSecret /\ [][NextSecret]_vars

\* The error parse_response returned for the i-th body carries a snippet
HasSnippet(i) ==
    /\ ~IsPanic(probe.out.v[i])
    /\ ~probe.out.v[i].ok
    /\ probe.out.v[i].err.body_snippet.some

\* C21: no error carries a body snippet that contains verbatim the access
\* token, refresh token or app key held by the response body, whether the
\* body is a JSON document or any other byte sequence and whatever the
\* status, and the snippets of two bodies that differ only in that secret
\* are the same.
C21_NoSecretInSnippet ==
    (probe.fn = "secret" /\ probe.out.some) =>
        /\ \A i \in 1..2 :
              HasSnippet(i) =>
                 ~contains(probe.out.v[i].err.body_snippet.v, probe.secrets[i])
        /\ (HasSnippet(1) /\ HasSnippet(2)) =>
              probe.out.v[1].err.body_snippet = probe.out.v[2].err.body_snippet

(***************************************************************************)
(* types/mod.rs: Debug and Display of SecretString and Credentials         *)
(***************************************************************************)
STR_Credentials_open == <<67, 114, 101, 100, 101, 110, 116, 105, 97, 108, 115, 32, 123, 32, 97, 112, 112, 95, 105, 100, 58, 32>>   \* Credentials { app_id:
STR_key_id_field     == <<44, 32, 107, 101, 121, 95, 105, 100, 58, 32>>   \* , key_id:
STR_app_key_field    == <<44, 32, 97, 112, 112, 95, 107, 101, 121, 58, 32>>   \* , app_key:
STR_close            == <<32, 125>>   \*  }
STR_SecretString_open == <<83, 101, 99, 114, 101, 116, 83, 116, 114, 105, 110, 103, 40>>  \* SecretString(
STR_paren_close      == <<41>>   \* )

\* char::escape_debug for the characters of the inputs: a quote and a
\* backslash get a backslash, a line feed is written \n, every other
\* graphic ASCII character is written as it is
escape_debug(ch) ==
    CASE ch = 34 -> <<92, 34>>
      [] ch = 92 -> <<92, 92>>
      [] ch = 10 -> <<92, 110>>
      [] OTHER   -> <<ch>>

RECURSIVE EscapeAll(_)
EscapeAll(s) == IF s = <<>> THEN <<>> ELSE escape_debug(Head(s)) \o EscapeAll(Tail(s))

\* <str as Debug>::fmt: the escaped text between quotes
str_Debug(s) == <<34>> \o EscapeAll(s) \o <<34>>

\* What #[derive(Debug)] would print for SecretString
SecretString_DebugDerived(secret) ==
    STR_SecretString_open \o str_Debug(secret) \o STR_paren_close

\* <SecretString as Debug>::fmt
SecretString_Debug(secret) == STR_REDACTED

\* <SecretString as Display>::fmt
SecretString_Display(secret) == STR_REDACTED

\* <Credentials as Debug>::fmt, {:?}
Credentials_Debug(credentials) ==
    STR_Credentials_open \o str_Debug(credentials.app_id)
        \o STR_key_id_field \o str_Debug(credentials.key_id)
        \o STR_app_key_field \o SecretString_Debug(credentials.app_key)
        \o STR_close

STR_RED   == <<82, 69, 68>>           \* "RED"
STR_quoted == <<97, 34, 98>>    \* a"b

FmtSecrets == {TheCredentials.app_key, STR_tok, STR_RED, STR_REDACTED, STR_quoted}

FmtAppIds == {TheCredentials.app_id, <<66, 50>>}

FmtKeyIds == {TheCredentials.key_id, <<75, 50>>}

InitFmt ==
    /\ InitClient({[max_retries |-> 3, base_delay |-> 2000, max_delay |-> 1500]},
                  {STR_ua}, {None}, {DefaultBodySnippet}, {})
    /\ probe \in [fn : {"fmt"}, app_id : FmtAppIds, key_id : FmtKeyIds,
                  secrets : FmtSecrets \X FmtSecrets, out : {None}]

\* Credentials::new(probe.app_id, probe.key_id, the i-th secret)
FmtCredentials(i) ==
    [app_id |-> probe.app_id, key_id |-> probe.key_id, app_key |-> probe.secrets[i]]

\* format!("{:?}") and format!("{}") of the two secrets, and format!("{:?}")
\* of the two credentials
ProbeFmt ==
    /\ probe.fn = "fmt"
    /\ ~probe.out.some
    /\ probe' = [probe EXCEPT
                    !.out = Some([debug   |-> [i \in 1..2 |-> SecretString_Debug(probe.secrets[i])],
                                  display |-> [i \in 1..2 |-> SecretString_Display(probe.secrets[i])],
                                  credentials |-> [i \in 1..2 |-> Credentials_Debug(FmtCredentials(i))]])]
    /\ UNCHANGED <<inner, handle, poisoned, access_token, now, rng, pc, call, req, max_attempts,
                   attempt, delay, result, sent, last>>

NextFmt == ProbeFmt

SpecFmt == InitFmt /\ [][NextFmt]_vars

\* The Debug and Display output of the two secrets is the same, and the
\* Debug output of the two credentials shows app_id and key_id and is the
\* same
FmtSameForBoth ==
    /\ probe.out.v.debug[1] = probe.out.v.debug[2]
    /\ probe.out.v.display[1] = probe.out.v.display[2]
    /\ probe.out.v.credentials[1] = probe.out.v.credentials[2]
    /\ \A i \in 1..2 : /\ contains(probe.out.v.credentials[i], probe.app_id)
                       /\ contains(probe.out.v.credentials[i], probe.key_id)

\* C22: the Debug and Display output of a SecretString is the same for any
\* two secret values and never contains the secret, and the Debug output of
\* Credentials shows app_id and key_id and is the same for any two values
\* of app_key.
C22_FmtNeverHoldsSecret ==
    (probe.fn = "fmt" /\ probe.out.some) =>
        /\ FmtSameForBoth
        /\ \A i \in 1..2 : /\ ~contains(probe.out.v.debug[i], probe.secrets[i])
                           /\ ~contains(probe.out.v.display[i], probe.secrets[i])

\* C22, amended: the Debug and Display output of a SecretString is the same
\* for any two secret values, and contains the secret only when the secret
\* is itself a part of the fixed text [REDACTED]; the Debug output of
\* Credentials shows app_id and key_id and is the same for any two values
\* of app_key.
C22_FmtIndependentOfSecret ==
    (probe.fn = "fmt" /\ probe.out.some) =>
        /\ FmtSameForBoth
        /\ \A i \in 1..2 :
              ~contains(STR_REDACTED, probe.secrets[i]) =>
                 /\ ~contains(probe.out.v.debug[i], probe.secrets[i])
                 /\ ~contains(probe.out.v.display[i], probe.secrets[i])

\* The secrets sK and Tk are both printed [REDACTED]
C22_Witness ==
    /\ probe.fn = "fmt" /\ probe.out.some
    /\ probe.secrets = <<TheCredentials.app_key, STR_tok>>
    /\ probe.out.v.debug = <<STR_REDACTED, STR_REDACTED>>
    /\ probe.out.v.display = <<STR_REDACTED, STR_REDACTED>>

(***************************************************************************)
(* Two threads calling at once: on clones of one client, or on two clients *)
(* built separately                                                        *)
(***************************************************************************)
\* Thread 2 holds a clone of the client of thread 1, or a client of its own
ConcurrentHandles == {[c \in Threads |-> 1], [c \in Threads |-> c]}

ConcurrentTokens == {STR_tok, STR_tok2}

\* A success, a server error and a timeout
ConcurrentOutcomes ==
    {[kind |-> "response",
      resp |-> [status |-> s,
                headers |-> [retry_after |-> RetryAfterAbsent, x_request_id |-> None,
                             request_id |-> None, x_correlation_id |-> None],
                body |-> BodyEnvelope(0, STR_msg)]] : s \in {200, 500}}
    \cup {[kind |-> "error", err |-> map_ureq_error("Timeout")]}

InitConcurrent ==
    /\ InitBuilt({[max_retries |-> 1, base_delay |-> 0, max_delay |-> 1500]},
                 {STR_ua}, {None, Some(STR_tok)}, {DefaultBodySnippet}, {EmptyHeaders},
                 ConcurrentHandles, Threads)
    /\ probe = NoProbe

NextConcurrent ==
    \/ \E k \in DOMAIN access_token, t \in ConcurrentTokens : SetAccessToken(k, t)
    \/ \E k \in DOMAIN access_token : ClearAccessToken(k)
    \/ \E c \in Threads, o \in CallOptions :
          CallValue(c, "query.position.info", "params", o)
    \/ \E c \in Threads, outcome \in ConcurrentOutcomes : Attempt(c, outcome)
    \/ \E c \in Threads : Sleep(c)

SpecConcurrent == InitConcurrent /\ [][NextConcurrent]_vars

\* The thread c enters call_value in this step
CallStarts(c) == pc[c] = "idle" /\ pc'[c] # "idle"

\* The request carries the token tk in its Accesstoken header and in its
\* signature
SignedWith(request, tk) ==
    /\ "accesstoken" \in DOMAIN request.headers
    /\ request.headers["accesstoken"] = tk
    /\ request.headers["sign"] =
          generate_signature(inner.credentials, Some(tk), request.headers["nonce"],
                             request.headers["time"], TRUE)

\* C23: the clones of one client share one access-token cell, and a client
\* built separately has its own.  A call that requires the token, started
\* on any handle of a client, uses the token the latest set_access_token on
\* any handle of that client stored, and fails with InvalidConfig when the
\* token was cleared last; a set or clear on one client changes the cell of
\* no other client, so never the token the calls of the other client use.
C23_ClonesShareTheToken ==
    /\ [][\A c \in Threads :
            (CallStarts(c) /\ call'[c].options.include_access_token /\ now >= 0) =>
                LET cell == access_token[handle[c]]
                IN  IF cell.some
                    THEN /\ pc'[c] = "send"
                         /\ SignedWith(req'[c], cell.v)
                    ELSE /\ pc'[c] = "done"
                         /\ ~result'[c].ok
                         /\ result'[c].err.variant = "InvalidConfig"]_vars
    /\ [][\A k \in DOMAIN access_token :
            access_token'[k] # access_token[k] =>
                \A other \in DOMAIN access_token \ {k} :
                    access_token'[other] = access_token[other]]_vars
    /\ [][\A k \in DOMAIN access_token, t \in ConcurrentTokens :
            /\ SetAccessToken(k, t) => access_token'[k] = Some(t)
            /\ ClearAccessToken(k) => access_token'[k] = None]_vars

\* Thread 2, on a clone, has sent a request signed with the token Zq, which
\* only a set_access_token after construction can have stored
C23_Witness ==
    /\ handle = [c \in Threads |-> 1]
    /\ sent[2] # <<>>
    /\ SignedWith(sent[2][1], STR_tok2)

\* C24: the access token is read from the store once per logical call,
\* before the first attempt.  Every attempt of a call hands the transport
\* the request call_value built, so a set_access_token or clear_access_token
\* that runs while the call is in flight changes neither the Accesstoken
\* header nor the signature of a later attempt; and in every request the
\* Accesstoken header and the signature come from the same token.
C24_TokenReadOncePerCall ==
    /\ [](\A c \in Threads : \A i \in DOMAIN sent[c] :
            /\ sent[c][i] = req[c]
            /\ IF call[c].options.include_access_token
               THEN /\ "accesstoken" \in DOMAIN sent[c][i].headers
                    /\ SignedWith(sent[c][i], sent[c][i].headers["accesstoken"])
               ELSE /\ "accesstoken" \notin DOMAIN sent[c][i].headers
                    /\ sent[c][i].headers["sign"] =
                          generate_signature(inner.credentials, None,
                                             sent[c][i].headers["nonce"],
                                             sent[c][i].headers["time"], FALSE))
    /\ [][access_token' # access_token => (req' = req /\ sent' = sent)]_vars
    /\ [][\A c \in Threads :
            (sent[c] # <<>> /\ Len(sent'[c]) > Len(sent[c])) =>
                sent'[c][Len(sent'[c])].headers = sent[c][1].headers]_vars

\* Thread 1 has sent a second attempt that carries the token Tk it read,
\* and the store of its client holds Zq
C24_Witness ==
    /\ Len(sent[1]) = 2
    /\ SignedWith(sent[1][2], STR_tok)
    /\ access_token[handle[1]] = Some(STR_tok2)

SignCredentials ==
    [app_id : {TheCredentials.app_id, <<97, 66>>}, key_id : {TheCredentials.key_id},
     app_key : {TheCredentials.app_key}]

SignTokens == {None, Some(<<>>), Some(STR_tok), Some(STR_tok2)}

SignTimes == {<<48>>, <<49, 55, 48, 48, 48, 48, 48, 48, 48, 48, 48, 48, 48>>}

InitSign ==
    /\ InitClient({[max_retries |-> 3, base_delay |-> 2000, max_delay |-> 1500]},
                  {STR_ua}, {None}, {DefaultBodySnippet}, {})
    /\ probe \in [fn : {"generate_signature"}, credentials : SignCredentials,
                  token : SignTokens, nonce : {generate_nonce(1), generate_nonce(2)},
                  time : SignTimes, include_access_token : BOOLEAN, out : {None}]

ProbeSign ==
    /\ probe.fn = "generate_signature"
    /\ ~probe.out.some
    /\ probe' = [probe EXCEPT
                    !.out = Some(generate_signature(probe.credentials, probe.token,
                                                    probe.nonce, probe.time,
                                                    probe.include_access_token))]
    /\ UNCHANGED <<inner, handle, poisoned, access_token, now, rng, pc, call, req, max_attempts,
                   attempt, delay, result, sent, last>>

NextSign == ProbeSign

SpecSign == InitSign /\ [][NextSign]_vars

\* A token is given and is not the empty string
TokenPresent(token) == token.some /\ token.v # <<>>

\* C26: the string that is digested is the prefix Accesstoken=<token>&,
\* there if and only if include_access_token is true and a token is present
\* and not empty, then Appid=<app_id>&Keyid=<key_id>&Nonce=<nonce>&Time=<time>
\* in this order, then the app key with no separator, all of it lower-cased.
\* With include_access_token = false the token is no part of the string:
\* the string is the same whatever the token, and differs from the string
\* built with include_access_token = true and a token that is not empty.
C26_SigningString ==
    (probe.fn = "generate_signature" /\ probe.out.some) =>
        LET fields == STR_Appid \o probe.credentials.app_id
                        \o STR_Keyid \o probe.credentials.key_id
                        \o STR_Nonce \o probe.nonce
                        \o STR_Time \o probe.time
                        \o probe.credentials.app_key
            prefix == STR_Accesstoken \o probe.token.v \o STR_Amp
        IN  /\ probe.out.v =
                  Md5Hex(to_lowercase(
                      IF probe.include_access_token /\ TokenPresent(probe.token)
                      THEN prefix \o fields ELSE fields))
            /\ ~probe.include_access_token =>
                  /\ \A other \in SignTokens :
                        probe.out.v = generate_signature(probe.credentials, other,
                                                         probe.nonce, probe.time, FALSE)
                  /\ \A other \in SignTokens :
                        TokenPresent(other) =>
                           probe.out.v # generate_signature(probe.credentials, other,
                                                            probe.nonce, probe.time, TRUE)

\* The token Tk with include_access_token = true: the digested string starts
\* with accesstoken=tk&appid=a1&keyid=k1&nonce=
C26_Witness ==
    /\ probe.fn = "generate_signature" /\ probe.out.some
    /\ probe.include_access_token /\ probe.token = Some(STR_tok)
    /\ probe.credentials = TheCredentials
    /\ SubSeq(probe.out.v.md5, 1, 39) = <<97, 99, 99, 101, 115, 115, 116, 111, 107, 101, 110, 61, 116, 107, 38, 97, 112, 112, 105, 100, 61, 97, 49, 38, 107, 101, 121, 105, 100, 61, 107, 49, 38, 110, 111, 110, 99, 101, 61>>

(***************************************************************************)
(* Calls of a client built with extra headers                              *)
(***************************************************************************)
STR_x == <<88>>     \* an extra header value, "X"

\* ClientBuilder::extra_header
extra_header(extra_headers, name, value) == HeaderInsert(extra_headers, name, value)

\* The names of the headers insert_required_headers and
\* insert_signature_headers always insert
EngineHeaderNames ==
    <<"user-agent", "content-type", "lang", "appid", "keyid", "nonce", "time", "sign">>

RECURSIVE ExtraHeadersNamed(_)
\* extra_header called with each of the names, in order, and the value X
ExtraHeadersNamed(names) ==
    IF names = <<>> THEN EmptyHeaders
    ELSE extra_header(ExtraHeadersNamed(Tail(names)), Head(names), STR_x)

\* No extra header, one of another name, one for each name the engine
\* always inserts, and one named accesstoken
ExtraHeaderSets ==
    {EmptyHeaders, ExtraHeadersNamed(<<"x-extra">>), ExtraHeadersNamed(EngineHeaderNames),
     ExtraHeadersNamed(<<"accesstoken">>)}

\* config.auth.createAccount, getAuthCode, getToken and refreshToken
AuthIntents ==
    {"config.auth.createAccount", "config.auth.getAuthCode", "config.auth.getToken",
     "config.auth.refreshToken"}

\* BlockingAuthService: create_account, get_auth_code, get_token and
\* refresh_token call call_json(intent, data, false, false)
AuthCall(c, intent) ==
    CallValue(c, intent, "params", [include_access_token |-> FALSE, idempotent |-> FALSE])

InitHeaders ==
    /\ InitBuilt({[max_retries |-> 1, base_delay |-> 0, max_delay |-> 1500]},
                 {STR_ua}, {None, Some(STR_tok)}, {DefaultBodySnippet}, ExtraHeaderSets,
                 {[c \in Threads |-> 1]}, {1})
    /\ probe = NoProbe

NextHeaders ==
    \/ \E k \in DOMAIN access_token, t \in ConcurrentTokens : SetAccessToken(k, t)
    \/ \E k \in DOMAIN access_token : ClearAccessToken(k)
    \/ \E c \in Threads, intent \in AuthIntents : AuthCall(c, intent)
    \/ \E c \in Threads, o \in CallOptions :
          CallValue(c, "query.position.info", "params", o)
    \/ \E c \in Threads, outcome \in ConcurrentOutcomes : Attempt(c, outcome)
    \/ \E c \in Threads : Sleep(c)

SpecHeaders == InitHeaders /\ [][NextHeaders]_vars

\* s is a nonce of the generator
IsNonce(s) == Len(s) = NONCE_LEN /\ \A i \in DOMAIN s : \E j \in DOMAIN Alphanumeric : s[i] = Alphanumeric[j]

\* s is a number in decimal digits
IsDecimal(s) == s # <<>> /\ \A i \in DOMAIN s : s[i] >= 48 /\ s[i] <= 57

\* C27: every request handed to the transport carries User-Agent and Lang
\* with the configured values, Content-Type: application/json, Appid, Keyid,
\* Nonce, Time and Sign with the engine's values, also when the client was
\* built with extra headers of these names: the engine's values replace
\* those of the extra headers.
C27_EngineHeadersReplaceExtra ==
    \A c \in Threads : \A i \in DOMAIN sent[c] :
        LET h == sent[c][i].headers
        IN  /\ {EngineHeaderNames[n] : n \in DOMAIN EngineHeaderNames} \subseteq DOMAIN h
            /\ h["user-agent"] = inner.user_agent
            /\ h["content-type"] = STR_Json
            /\ h["lang"] = inner.lang
            /\ h["appid"] = inner.credentials.app_id
            /\ h["keyid"] = inner.credentials.key_id
            /\ IsNonce(h["nonce"])
            /\ IsDecimal(h["time"])
            /\ \E token \in {None} \cup {Some(t) : t \in ConcurrentTokens} :
                  h["sign"] = generate_signature(inner.credentials, token, h["nonce"],
                                                 h["time"], call[c].options.include_access_token)

\* A client built with an extra header for each of the eight names has
\* sent a request
C27_Witness ==
    /\ inner.extra_headers = ExtraHeadersNamed(EngineHeaderNames)
    /\ sent[1] # <<>>

\* C28: a request the engine sends carries an Accesstoken header if and
\* only if the call was made with include_access_token = true.  The four
\* auth operations, made on a client with no token or with a token set,
\* build their request and send it with no Accesstoken header.
C28_AccesstokenIffIncluded ==
    /\ [](\A c \in Threads : \A i \in DOMAIN sent[c] :
            ("accesstoken" \in DOMAIN sent[c][i].headers)
                <=> call[c].options.include_access_token)
    /\ [][\A c \in Threads :
            (CallStarts(c) /\ call'[c].intent \in AuthIntents /\ now >= 0) =>
                /\ pc'[c] = "send"
                /\ "accesstoken" \notin DOMAIN req'[c].headers]_vars

\* The thread c takes a step of its call
CallSteps(c) == pc'[c] # pc[c] \/ attempt'[c] # attempt[c] \/ sent'[c] # sent[c]

\* C29: logical calls that run at once on one client handle or its clones
\* are independent.  Each call has its own attempt counter and request: a
\* step of one call changes neither the counter, the request, the sends nor
\* the result of another.  A call has made as many sends as its counter
\* says, never more than its own max_attempts, whatever the interleaving,
\* and what it returns after its attempts is the classification of the
\* outcome of its own last attempt.
C29_CallsAreIndependent ==
    /\ [][\A c \in Threads : \A d \in Threads \ {c} :
            CallSteps(c) =>
                /\ pc'[d] = pc[d]
                /\ call'[d] = call[d]
                /\ req'[d] = req[d]
                /\ max_attempts'[d] = max_attempts[d]
                /\ attempt'[d] = attempt[d]
                /\ delay'[d] = delay[d]
                /\ sent'[d] = sent[d]
                /\ last'[d] = last[d]
                /\ result'[d] = result[d]]_vars
    /\ [](\A c \in Threads :
            sent[c] # <<>> =>
                /\ Len(sent[c]) = attempt[c]
                /\ max_attempts[c] = MaxAttempts(call[c].options.idempotent, inner.retry)
                /\ attempt[c] <= max_attempts[c]
                /\ (pc[c] = "done" => result[c] = Classified(c)))

\* Two idempotent calls on clones of one client have returned: thread 1
\* after two sends, thread 2 after one
C29_Witness ==
    /\ handle = [c \in Threads |-> 1]
    /\ pc = [c \in Threads |-> "done"]
    /\ Idempotent(1) /\ Idempotent(2)
    /\ Len(sent[1]) = 2 /\ ~result[1].ok
    /\ Len(sent[2]) = 1 /\ result[2].ok

(***************************************************************************)
(* The request id of an error raised without a decoded envelope            *)
(***************************************************************************)
STR_x1 == <<120, 49>>       \* a value of x-request-id, "x1"
STR_q2 == <<113, 50>>       \* a value of request-id, "q2"
STR_c3 == <<99, 51>>       \* a value of x-correlation-id, "c3"
STR_r2 == <<114, 50>>       \* a request id in a body, "r2"
STR_obs == <<233>>             \* a header value of one byte above 127

RequestIdHeaders ==
    [retry_after : {RetryAfterAbsent},
     x_request_id : {None, Some(STR_x1), Some(STR_obs)},
     request_id : {None, Some(STR_q2)},
     x_correlation_id : {None, Some(STR_c3)}]

\* Bytes that are no JSON, {"error":"boom"}, {"requestId":"r1"},
\* {"request_id":"r2"}, {"requestId":"r1","request_id":"r2"} and
\* envelopes that decode, with the codes 0, 1 and 429
RequestIdBodies ==
    {BodyNotJson, BodyOtherJson,
     BodyJson(JObj(<<Member(STR_requestId, JStr(STR_rid))>>)),
     BodyJson(JObj(<<Member(STR_request_id, JStr(STR_r2))>>)),
     BodyJson(JObj(<<Member(STR_requestId, JStr(STR_rid)),
                     Member(STR_request_id, JStr(STR_r2))>>)),
     BodyEnvelope(0, STR_msg), BodyEnvelope(1, STR_msg), BodyEnvelope(429, STR_msg)}

InitRequestId ==
    /\ InitClient({[max_retries |-> 3, base_delay |-> 2000, max_delay |-> 1500]},
                  {STR_ua}, {None}, {DefaultBodySnippet}, {})
    /\ probe \in [fn : {"request_id"},
                  resp : [status : {200, 429, 500}, headers : RequestIdHeaders,
                          body : RequestIdBodies],
                  out : {None}]

ProbeRequestId ==
    /\ probe.fn = "request_id"
    /\ ~probe.out.some
    /\ probe' = [probe EXCEPT !.out = Some(parse_response(probe.resp, now))]
    /\ UNCHANGED <<inner, handle, poisoned, access_token, now, rng, pc, call, req, max_attempts,
                   attempt, delay, result, sent, last>>

NextRequestId == ProbeRequestId

SpecRequestId == InitRequestId /\ [][NextRequestId]_vars

\* The value of the first header present among x-request-id, request-id
\* and x-correlation-id, in this order
FirstHeaderPresent(headers) ==
    IF headers.x_request_id.some THEN headers.x_request_id
    ELSE IF headers.request_id.some THEN headers.request_id
    ELSE headers.x_correlation_id

\* The requestId field of the body, else its request_id field, else absent
BodyRequestId(body) ==
    IF ~body.json THEN None
    ELSE IF JGet(body.doc, STR_requestId).some THEN Some(JGet(body.doc, STR_requestId).v.s)
    ELSE IF JGet(body.doc, STR_request_id).some THEN Some(JGet(body.doc, STR_request_id).v.s)
    ELSE None

\* C30: the request id of an error raised without a decoded envelope
\* (RateLimited from HTTP 429, Decode, Http on a body that does not decode)
\* is the value of the first header present among x-request-id, request-id
\* and x-correlation-id, in this order; only when none of them is present
\* is it the requestId field of the body, else its request_id field, else
\* absent.
C30_RequestIdFromHeadersFirst ==
    (/\ probe.fn = "request_id" /\ probe.out.some
     /\ probe.resp.status = TOO_MANY_REQUESTS \/ ~DecodeEnvelope(probe.resp.body).ok) =>
        /\ ~probe.out.v.ok
        /\ probe.out.v.err.variant \in {"RateLimited", "Decode", "Http"}
        /\ probe.out.v.err.request_id =
              IF FirstHeaderPresent(probe.resp.headers).some
              THEN FirstHeaderPresent(probe.resp.headers)
              ELSE BodyRequestId(probe.resp.body)

\* C31: once the envelope decodes, the request id of what is returned --
\* the Ok response, the Api error, the RateLimited error of business code
\* 429, the Http error of a status that is not 2xx -- is the request_id of
\* the envelope, also when the response has a request-id header of another
\* value.
C31_EnvelopeRequestIdWins ==
    (/\ probe.fn = "request_id" /\ probe.out.some
     /\ ~IsPanic(probe.out.v)
     /\ probe.resp.status # TOO_MANY_REQUESTS
     /\ DecodeEnvelope(probe.resp.body).ok) =>
        LET envelope == DecodeEnvelope(probe.resp.body).v
        IN  IF probe.out.v.ok
            THEN probe.out.v.v.envelope.request_id = envelope.request_id
            ELSE /\ probe.out.v.err.variant \in {"Api", "RateLimited", "Http"}
                 /\ probe.out.v.err.request_id = Some(envelope.request_id)

\* HTTP 500 with the header request-id: q2 and an envelope of code 0 and
\* requestId r1: the Http error has the request id r1
C31_Witness ==
    /\ probe.fn = "request_id" /\ probe.out.some
    /\ probe.resp.status = 500
    /\ probe.resp.headers.x_request_id = None
    /\ probe.resp.headers.request_id = Some(STR_q2)
    /\ probe.resp.body = BodyEnvelope(0, STR_msg)
    /\ ~probe.out.v.ok
    /\ probe.out.v.err.variant = "Http"
    /\ probe.out.v.err.request_id = Some(STR_rid)

(***************************************************************************)
(* Calls and token-store operations on a client whose lock gets poisoned   *)
(***************************************************************************)
InitPoison ==
    /\ InitBuilt({[max_retries |-> 1, base_delay |-> 0, max_delay |-> 1500]},
                 {STR_ua}, {None, Some(STR_tok)}, {DefaultBodySnippet}, {EmptyHeaders},
                 {[c \in Threads |-> 1]}, {1})
    /\ probe = NoProbe

NextPoison ==
    \/ \E k \in DOMAIN access_token, t \in ConcurrentTokens : SetAccessToken(k, t)
    \/ \E k \in DOMAIN access_token : SetAccessTokenPanics(k)
    \/ \E k \in DOMAIN access_token : ClearAccessToken(k)
    \/ \E c \in Threads, o \in CallOptions :
          CallValue(c, "query.position.info", "params", o)
    \/ \E c \in Threads, outcome \in ConcurrentOutcomes : Attempt(c, outcome)
    \/ \E c \in Threads : Sleep(c)

SpecPoison == InitPoison /\ [][NextPoison]_vars

\* C32: when the token lock is poisoned by a panic of a thread that held
\* it, set_access_token, clear_access_token and the token read of a call
\* still complete and work on the stored value: a set or clear can be made
\* and stores its value, and a call that requires the token reads the value
\* stored last -- it signs with that token, or returns InvalidConfig when
\* the store is empty -- with no panic and no other error.
C32_PoisonedLockStillWorks ==
    /\ [](\A k \in poisoned :
            /\ ENABLED SetAccessToken(k, STR_tok)
            /\ ENABLED ClearAccessToken(k))
    /\ [][\A k \in poisoned : \A t \in ConcurrentTokens :
            /\ SetAccessToken(k, t) => access_token'[k] = Some(t)
            /\ ClearAccessToken(k) => access_token'[k] = None]_vars
    /\ [][\A c \in Threads :
            (/\ handle[c] \in poisoned /\ CallStarts(c)
             /\ call'[c].options.include_access_token /\ now >= 0) =>
                LET cell == access_token[handle[c]]
                IN  IF cell.some
                    THEN /\ pc'[c] = "send"
                         /\ SignedWith(req'[c], cell.v)
                    ELSE /\ pc'[c] = "done"
                         /\ ~result'[c].ok
                         /\ result'[c].err.variant = "InvalidConfig"]_vars

\* The lock is poisoned and a call has sent a request signed with Zq, a
\* token set_access_token stored
C32_Witness ==
    /\ handle[1] \in poisoned
    /\ access_token[handle[1]] = Some(STR_tok2)
    /\ sent[1] # <<>>
    /\ SignedWith(sent[1][1], STR_tok2)

\* The failures of ureq that are neither a timeout nor a failure to connect:
\* a malformed request URI and a protocol error
NeitherTimeoutNorConnect == {"BadUri", "Protocol"}

\* C33: a transport failure that is neither a timeout nor a connection
\* failure -- a malformed request URI, a protocol error -- has the kind
\* Other and is never retried, also when the call is idempotent and has
\* attempts left: the call returns the Transport error.  Only a failure of
\* kind Timeout or Connect is followed by a retry.
C33_OtherFailuresAreNotRetried ==
    \A c \in Threads :
        GotTransportError(c) =>
            /\ last[c].outcome.err.message \in NeitherTimeoutNorConnect =>
                  /\ last[c].outcome.err.kind = "Other"
                  /\ last[c].decision = "return"
                  /\ pc[c] = "done"
            /\ last[c].decision = "retry_transport" =>
                  last[c].outcome.err.kind \in {"Timeout", "Connect"}

\* min(base_ms * 2^min(attempt - 1, 30), max_ms), the product saturating at
\* the largest 64-bit value
ClaimedCapMs(att, retry) ==
    LET base_ms == retry.base_delay \div MICROS_PER_MILLI
        max_ms  == retry.max_delay \div MICROS_PER_MILLI
        factor  == 2 ^ Min(att - 1, MAX_EXP)
        product == IF base_ms = 0 THEN 0
                   ELSE IF base_ms > U64_MAX \div factor THEN U64_MAX
                   ELSE base_ms * factor
    IN  Min(product, max_ms)

\* C34: for every attempt >= 1 and every RetryConfig the backoff is a whole
\* number of milliseconds drawn from
\* [0, min(base_ms * 2^min(attempt - 1, 30), max_ms)], every number of the
\* range being possible, where the product saturates at the 64-bit maximum
\* and does not wrap; it is exactly 0 when base_delay or max_delay is below
\* one millisecond, and a delay of 0 makes no wait.
C34_BackoffRange ==
    (/\ probe.fn = "compute_backoff_with_jitter" /\ probe.out.some
     /\ probe.attempt >= 1) =>
        LET cap == ClaimedCapMs(probe.attempt, probe.retry)
        IN  /\ probe.out.v \in {DurationFromMillis(ms) : ms \in 0..cap}
            /\ compute_backoff_with_jitter(probe.attempt, probe.retry) =
                  {DurationFromMillis(ms) : ms \in 0..cap}
            /\ (probe.retry.base_delay < MICROS_PER_MILLI
                \/ probe.retry.max_delay < MICROS_PER_MILLI) => probe.out.v = 0
            /\ probe.out.v = 0 => sleep(probe.out.v, now) = now

\* Attempt 32 with base_delay 2000 s and max_delay 5 ms: the product
\* saturates and the largest delay, 5 ms, is drawn
C34_Witness ==
    /\ probe.fn = "compute_backoff_with_jitter" /\ probe.out.some
    /\ probe.attempt = 32
    /\ probe.retry.base_delay = 2000000000 /\ probe.retry.max_delay = 5000
    /\ probe.out.v = 5000

\* C35: a call returns Ok only if its last attempt received a response with
\* a 2xx status whose body decoded as an envelope with code 0, and what it
\* returns is that status and envelope; no response with another code, a
\* status outside 2xx or a body that does not decode is returned as Ok.
C35_OkOnlyOnSuccess ==
    \A c \in Threads :
        (pc[c] = "done" /\ result[c].ok) =>
            /\ GotResponse(c)
            /\ LastStatus(c) \in 200..299
            /\ LastEnvelope(c).ok
            /\ LastEnvelope(c).v.code = 0
            /\ result[c].v = [status |-> LastStatus(c), envelope |-> LastEnvelope(c).v]

\* An idempotent call has returned Ok at its second attempt
C35_Witness ==
    \E c \in Threads :
        /\ pc[c] = "done" /\ result[c].ok
        /\ attempt[c] = 2
        /\ LastStatus(c) = 200

(***************************************************************************)
(* Calls of a client whose token may be the empty string                   *)
(***************************************************************************)
\* Tokens handed to set_access_token and to the builder: the empty string
\* and a token
EmptyOrToken == {<<>>, STR_tok}

InitToken ==
    /\ InitBuilt({[max_retries |-> 1, base_delay |-> 0, max_delay |-> 1500]},
                 {STR_ua}, {None} \cup {Some(t) : t \in EmptyOrToken}, {DefaultBodySnippet},
                 {EmptyHeaders}, {[c \in Threads |-> 1]}, {1})
    /\ probe = NoProbe

NextToken ==
    \/ \E k \in DOMAIN access_token, t \in EmptyOrToken : SetAccessToken(k, t)
    \/ \E k \in DOMAIN access_token : ClearAccessToken(k)
    \/ \E c \in Threads, o \in CallOptions :
          CallValue(c, "query.position.info", "params", o)
    \/ \E c \in Threads, outcome \in ConcurrentOutcomes : Attempt(c, outcome)
    \/ \E c \in Threads : Sleep(c)

SpecToken == InitToken /\ [][NextToken]_vars

\* The string digested for the Sign header of the request starts with the
\* field Accesstoken=, lower-cased as the whole string is
SignedWithTokenField(request) ==
    LET s == request.headers["sign"].md5
        field == to_lowercase(STR_Accesstoken)
    IN  Len(s) >= Len(field) /\ SubSeq(s, 1, Len(field)) = field

\* C36: every request sent carries the Accesstoken header exactly when the
\* field Accesstoken= is part of the string that was signed, for every
\* token, the empty string included.
C36_HeaderIffSigned ==
    \A c \in Threads : \A i \in DOMAIN sent[c] :
        ("accesstoken" \in DOMAIN sent[c][i].headers) <=> SignedWithTokenField(sent[c][i])

\* C37: all the attempts of one call go to the base URL the client was
\* built with and carry the same bytes, the encoding of {intent, data} of
\* the call: a retry changes neither the URL nor the body of the request,
\* and no step of a call changes the base URL, the credentials or the retry
\* configuration of the client.
C37_AttemptsSendTheSameRequest ==
    /\ [](\A c \in Threads : \A i \in DOMAIN sent[c] :
            /\ sent[c][i].url = inner.base_url
            /\ sent[c][i].body = EncodeBody(call[c].intent, call[c].data).v
            /\ sent[c][i].url = sent[c][1].url
            /\ sent[c][i].body = sent[c][1].body)
    /\ [][\A c \in Threads :
            pc[c] \in {"send", "sleep"} =>
                /\ req'[c].url = req[c].url
                /\ req'[c].body = req[c].body]_vars
    /\ [][/\ inner'.base_url = inner.base_url
          /\ inner'.credentials = inner.credentials
          /\ inner'.retry = inner.retry]_vars

\* A call has returned after three sends
C37_Witness ==
    \E c \in Threads :
        /\ pc[c] = "done"
        /\ Len(sent[c]) = 3

(***************************************************************************)
(* Calls whose sends and sleeps all return                                 *)
(***************************************************************************)
InitTerminate ==
    /\ InitBuilt({[max_retries |-> m, base_delay |-> 0, max_delay |-> 1500] : m \in MaxRetriesValues},
                 {STR_ua}, {None, Some(STR_tok)}, {DefaultBodySnippet}, {EmptyHeaders},
                 {[c \in Threads |-> 1]}, {1})
    /\ probe = NoProbe

\* transport.send of the pass of thread c returns, with a response or an
\* error
Send(c) == \E outcome \in ConcurrentOutcomes : Attempt(c, outcome)

NextTerminate ==
    \/ \E k \in DOMAIN access_token, t \in ConcurrentTokens : SetAccessToken(k, t)
    \/ \E k \in DOMAIN access_token : ClearAccessToken(k)
    \/ \E c \in Threads, o \in CallOptions :
          CallValue(c, "query.position.info", "params", o)
    \/ \E c \in Threads : Send(c)
    \/ \E c \in Threads : Sleep(c)

\* The step Send(c) of one outcome, a timeout.  It is enabled exactly when
\* Send(c) is, and a step Send(c) of any outcome disables it.
SendReturns(c) == Attempt(c, [kind |-> "error", err |-> map_ureq_error("Timeout")])

\* Every transport.send and every thread::sleep of the loop returns: the
\* calling thread runs the loop of execute_with_retry on.  A thread does not
\* wait in transport.send for ever: weak fairness of SendReturns(c) says no
\* more, since SendReturns(c) is enabled as long as the thread waits and
\* no longer once the send has returned, whatever it returned.
SpecTerminate ==
    /\ InitTerminate
    /\ [][NextTerminate]_vars
    /\ \A c \in Threads : WF_vars(SendReturns(c)) /\ WF_vars(Sleep(c))

\* The loop of execute_with_retry runs for the call of c
InLoop(c) == pc[c] \in {"send", "sleep"}

\* C38: every call ends provided every send returns.  The attempt counter
\* goes up by exactly one with every send and changes at no other step of
\* the loop, a retry is scheduled only while attempt < max_attempts, the
\* loop runs only while attempt < max_attempts and the call returns at an
\* attempt number of at most max_attempts; max_attempts is never 0, and with
\* max_retries = u32::MAX it is u32::MAX, the saturated max_retries + 1.
\* The end of the call is explored for the calls of at most AttemptCap
\* attempts.
C38_CallsTerminate ==
    /\ \A c \in Threads :
          (InLoop(c) /\ max_attempts[c] <= AttemptCap) ~> (pc[c] \in {"done", "panicked"})
    /\ [][\A c \in Threads :
            InLoop(c) =>
                /\ (sent'[c] # sent[c]) =>
                      /\ Len(sent'[c]) = Len(sent[c]) + 1
                      /\ attempt'[c] = attempt[c] + 1
                /\ (sent'[c] = sent[c]) => attempt'[c] = attempt[c]
                /\ (pc[c] = "send" /\ pc'[c] = "sleep") => attempt'[c] < max_attempts[c]
                /\ max_attempts'[c] = max_attempts[c]]_vars
    /\ [](\A c \in Threads :
            /\ InLoop(c) =>
                  /\ attempt[c] < max_attempts[c]
                  /\ attempt[c] = Len(sent[c])
                  /\ max_attempts[c] = IF ~Idempotent(c) THEN 1
                                       ELSE IF inner.retry.max_retries = U32_MAX THEN U32_MAX
                                       ELSE inner.retry.max_retries + 1
            /\ (pc[c] = "done" /\ sent[c] # <<>>) =>
                  /\ attempt[c] >= 1
                  /\ attempt[c] <= max_attempts[c])

\* An idempotent call with max_retries = 1 has returned the failure of its
\* second attempt, the last it may make
C38_Witness ==
    \E c \in Threads :
        /\ pc[c] = "done"
        /\ ~result[c].ok
        /\ attempt[c] = 2
        /\ max_attempts[c] = 2
        /\ GotTransportError(c)

====
